---- MODULE Spec2Model ----
(***************************************************************************)
(* st-agentskills: the call-protocol engine of src/index.js.               *)
(*                                                                         *)
(* A call tag found in a received message becomes a call that is chained   *)
(* on the engine's promise lane (engine.enqueue).  A link of the lane runs *)
(* runSkill: circuit breaker, registry lookup, "executing" notice, the     *)
(* handler, delivery of one system message and, on success, the            *)
(* continuation trigger.  JavaScript runs each piece of code between two   *)
(* awaits to completion, so every action below is one such piece.          *)
(***************************************************************************)
EXTENDS Integers, Sequences, FiniteSets

\* ---------------------------------------------------------------- bounds
\* Skill names that call tags name.
SkillNames == {"a", "b"}
\* Skill names that are registered at some time; a call of any other name is
\* a call of an unknown skill.
Registrable == {"a"}
\* Calls that are enqueued in one run.
MaxReq == 7
\* Calls waiting on the lane at one time.
MaxPending == 2
\* Clock ticks in one run.
MaxTicks == 2
\* Clock ticks in one run of the registry alone.
MaxRegTicks == 2
\* Calls that are enqueued in one run on a host page of any kind.
MaxHostReq == 2

\* ------------------------------------------------------ program constants
WINDOW_MS == 30000
MAX_CALLS_PER_WINDOW == 5

\* The clock advances in steps of one window: two attempts are 0 ms, exactly
\* WINDOW_MS (the boundary of the window) or more than WINDOW_MS apart.
TickMs == WINDOW_MS

\* "Within 5 seconds", the span of the documented burst scenario.
BurstSpanMs == 5 * 1000

VARIABLES
  now,                   \* Date.now()
  registry,              \* registry.skills: name -> descriptor
  queue,                 \* links of the promise lane whose callback has not run yet
  running,               \* invocations of runSkill that have started and not settled
  recentCallTimestamps,  \* the breaker's CircuitState
  nEnq,                  \* calls enqueued so far; a call's id is its rank
  nStarted,              \* invocations started so far
  attemptLog,            \* history: time and verdict of every breaker check
  recentArrivals,        \* history: times of the last enqueues, within BurstSpanMs
  faulted,               \* history: some handler has thrown or rejected
  everDisabled,          \* history: some skill has been registered disabled
  order,                 \* registry.skills: the names in the Map's iteration order
  ret,                   \* what the last call of register returned
  host,                  \* what the host page provides (window.*, script.js)
  received,              \* the message the host is handing to the listener
  arg,                   \* the argument of a register call under study
  lastResult,            \* the last result message handed to addSystemMessage,
                         \* with the value the handler had returned
  request,               \* the CHAT_COMPLETION_PROMPT_READY event the host is
                         \* emitting: its payload before and after the listener
  parser,                \* CALL_RE.lastIndex, and (history) the texts handed to
                         \* extractFirstCall so far with what it returned
  worldbook,             \* the worldbook example: the entries of the book, the
                         \* version records in localStorage, and (history) the
                         \* last call of one of its skills
  enqueueLog,            \* history, kept where the wait in the lane is studied:
                         \* for every call, the time of its enqueue, the
                         \* descriptor the registry held for its name then,
                         \* and the time its invocation ended (-1 before)
  creator                \* the creator panel: the skills in localStorage
                         \* (creatorStore), registeredNames of the creator
                         \* runtime and editingName of the form

vars == <<now, registry, queue, running, recentCallTimestamps, nEnq, nStarted,
          attemptLog, recentArrivals, faulted, everDisabled, order, ret, host,
          received, arg, lastResult, request, worldbook, parser, creator, enqueueLog>>

\* ------------------------------------------------------------- registry
\* JavaScript values, as far as normalizeConfig tells them apart: a missing
\* field (undefined), a string, a boolean, a function, a value of another type.
Absent == [t |-> "absent", v |-> ""]
Str(text) == [t |-> "str", v |-> text]
Bool(b) == [t |-> "bool", v |-> IF b THEN "true" ELSE "false"]
Fn(h) == [t |-> "fn", v |-> h]
Other == [t |-> "other", v |-> ""]

\* An argument of register: a plain object with these fields; a value that is
\* no plain object (kind "other"); a plain object whose fields throw when read
\* (kind "throws").
Config(kind, name, description, action, enabled) ==
  [kind |-> kind, name |-> name, description |-> description,
   action |-> action, enabled |-> enabled]

\* No register call is under study.
NoConfig == Config("none", Absent, Absent, Absent, Absent)

\* safeString(value, fallback): a string as it is, the fallback for a missing
\* value, String(value) otherwise.
SafeString(x, fallback) ==
  IF x.t = "str" THEN x.v
  ELSE IF x.t \in {"absent", "null"} THEN fallback
  ELSE IF x.t \in {"bool", "num"} THEN x.v
  ELSE "[object Object]"

\* String.prototype.trim on the strings of this model.
Trim(text) ==
  CASE text = "  " -> ""
    [] text = " a " -> "a"
    [] OTHER -> text

\* `unnamed_${sec}`.
UnnamedName(sec) ==
  CASE sec = 0 -> "unnamed_0"
    [] sec = 1 -> "unnamed_1"
    [] sec = 2 -> "unnamed_2"
    [] OTHER -> "unnamed_3"

\* The action normalizeConfig supplies when the config has none.
DefaultAction == "noAction"

DefaultDescription == "(no description)"

\* normalizeConfig at time t.
NormalizeConfig(cfg, t) ==
  LET c == IF cfg.kind = "object" THEN cfg
           ELSE Config("object", Absent, Absent, Absent, Absent)
      n == Trim(SafeString(c.name, ""))
      d == Trim(SafeString(c.description, ""))
  IN [name |-> IF n = "" THEN UnnamedName(t \div 1000) ELSE n,
      description |-> IF d = "" THEN DefaultDescription ELSE d,
      action |-> IF c.action.t = "fn" THEN c.action.v ELSE DefaultAction,
      enabled |-> IF c.enabled.t = "bool" THEN c.enabled.v = "true" ELSE TRUE]

\* skills.set(name, normalized): insert or overwrite.
MapSet(m, k, v) == [x \in (DOMAIN m) \cup {k} |-> IF x = k THEN v ELSE m[x]]

\* The Map's key order after skills.set(k, ...): a new key goes last, a key
\* already present keeps its place.
OrderSet(o, k) == IF \E i \in 1..Len(o) : o[i] = k THEN o ELSE Append(o, k)

\* skills.delete(k).
MapDelete(m, k) == [x \in (DOMAIN m) \ {k} |-> m[x]]

OrderDelete(o, k) == SelectSeq(o, LAMBDA x : x # k)

\* What register returns when it has caught a fault, and the value of `ret`
\* before any call of register.
NullRet == "<null>"
NoRet == "<none>"

\* The config of an ordinary registration: a name, a description, an action
\* and the enabled flag.
SkillConfig(name, enabled) ==
  Config("object", Str(name), Str("d"), Fn("h1"), Bool(enabled))

\* The test is `!skill` alone.
UsableIfRegistered(name) == name \in DOMAIN registry

\* registry.get(name) followed by the test `!skill || !skill.enabled`.
Usable(name) == name \in DOMAIN registry /\ registry[name].enabled

\* ------------------------------------------------------- circuit breaker
PruneNothing(ts, t) == ts

\* The while loop of bumpCircuitBreaker: shift while the head is older than
\* the window.
RECURSIVE Prune(_, _)
Prune(ts, t) ==
  IF ts # <<>> /\ t - Head(ts) > WINDOW_MS THEN Prune(Tail(ts), t) ELSE ts

\* bumpCircuitBreaker: push the current time, prune; the count is the length.
BumpCircuitBreaker(ts, t) == Prune(Append(ts, t), t)

\* The time the call was handed to engine.enqueue.
StampOfEnqueue(call) == enqueueLog[call.id].at

\* const t = nowMs() in bumpCircuitBreaker, which runSkill calls when the
\* lane runs the callback of the call's link.
Stamp(call) == now

TrippedAtMax(count) == count >= MAX_CALLS_PER_WINDOW

TrippedLate(count) == count > MAX_CALLS_PER_WINDOW + 1

\* `count > MAX_CALLS_PER_WINDOW`.
Tripped(count) == count > MAX_CALLS_PER_WINDOW

\* What registry.get returns for a name the Map does not hold.
NoSkill == [name |-> "", description |-> "", action |-> "none", enabled |-> FALSE]

\* skills.get(name).
Get(name) == IF name \in DOMAIN registry THEN registry[name] ELSE NoSkill

\* The descriptor the registry held for the call's name when the call was
\* handed to engine.enqueue.
LookupAtEnqueue(call) == enqueueLog[call.id].found

\* const skill = registry.get(skillName) in runSkill, when the lane runs the
\* callback of the call's link.
Lookup(call) == Get(call.skillName)

\* ------------------------------------------------------------- the lane
\* queue = queue.then(() => runSkill(call)).catch(...): the call's link is
\* chained behind every link made before it.
Chain(q, call) == Append(q, call)

LaneReadyAlways(id) == TRUE

LaneReadyWhenIdle(id) == running = {}

LaneReadyOnceStarted(id) == \A i \in 1..Len(queue) : queue[i].id # id - 1

\* The promise that link `id` is chained on has settled: the initial
\* Promise.resolve() for the first link, otherwise the previous link, which
\* settles when its runSkill has ended and its .catch has run.
LaneReady(id) ==
  /\ \A r \in running : r.id # id - 1
  /\ \A i \in 1..Len(queue) : queue[i].id # id - 1

\* The sequence q without its i-th element.
Without(q, i) == [k \in 1..(Len(q) - 1) |-> IF k < i THEN q[k] ELSE q[k + 1]]

Ids(S) == {r.id : r \in S}

\* The record of an invocation: where runSkill is suspended (pc), what it has
\* handed to the host so far (out: messages to addSystemMessage and calls of
\* triggerGenerate, in order), how its handler ended (hres) and whether its
\* "Skill executing" notice is on screen.
Invocation(call, pc, out, notice) ==
  [id |-> call.id, skillName |-> call.skillName, pc |-> pc, out |-> out,
   hres |-> "none", notice |-> notice,
   \* what the handler is called with, when it is called
   args |-> call.args, rawArgs |-> call.rawArgs,
   \* the handler that is called: the action of the descriptor looked up
   action |-> IF pc = "handler" THEN Lookup(call).action ELSE "none",
   attempt |-> nStarted + 1,   \* history: rank among the invocations started
   seen |-> nEnq,              \* history: calls enqueued before it started
   sixth |-> call.sixth,       \* history: copied from the call
   afterFault |-> faulted]     \* history: a handler had thrown before it started

\* The last MAX_CALLS_PER_WINDOW elements of s.
LastCalls(s) ==
  IF Len(s) <= MAX_CALLS_PER_WINDOW THEN s
  ELSE SubSeq(s, Len(s) - MAX_CALLS_PER_WINDOW + 1, Len(s))

\* The enqueue times in s that are at most BurstSpanMs before t.
KeepRecent(s, t) == SelectSeq(s, LAMBDA a : t - a <= BurstSpanMs)

\* ----------------------------------------------------------- host page
\* What the host page provides: helper stands for sendSystemMessage and
\* addSystemMessage (of window or script.js), addOne for addOneMessage, chat
\* for the array window.chat, generate for generate(); each is present and
\* working ("ok"), present and throwing ("throws") or absent ("missing").
\* toastr: window.toastr is there.
Hosts ==
  [helper : {"ok", "throws", "missing"}, addOne : {"ok", "throws", "missing"},
   chat : {"ok", "missing"}, generate : {"ok", "throws", "missing"},
   toastr : BOOLEAN]

\* The host pages whose sink functions are all working, all throwing or all
\* absent.
LiveHosts ==
  {h \in Hosts : h.helper = h.addOne /\ (h.chat = "ok" <=> h.helper = "ok")}

\* A host page that provides everything the adapter looks for, and no toastr.
HealthyHost ==
  [helper |-> "ok", addOne |-> "ok", chat |-> "ok", generate |-> "ok",
   toastr |-> FALSE]

\* The adapter without its try/catch: the first host function that throws
\* ends the call.
AddSystemMessageUnguarded(h) ==
  IF h.helper = "ok" THEN "delivered"
  ELSE IF h.helper = "throws" THEN "rejected"
  ELSE IF h.addOne = "ok" THEN "delivered"
  ELSE IF h.addOne = "throws" THEN "rejected"
  ELSE IF h.chat = "ok" THEN "delivered"
  ELSE "dropped"

\* stApi.api.addSystemMessage: the helpers, then addOneMessage, then
\* window.chat, each tried in turn, a throw being caught; how the promise it
\* returns ends.
AddSystemMessage(h) ==
  IF h.helper = "ok" THEN "delivered"
  ELSE IF h.addOne = "ok" THEN "delivered"
  ELSE IF h.chat = "ok" THEN "delivered"
  ELSE "dropped"

\* stApi.api.triggerGenerate: nothing without generate(); a throw of
\* generate() is caught and logged.
TriggerGenerate(h) ==
  IF h.generate = "missing" THEN "skipped"
  ELSE IF h.generate = "ok" THEN "generated"
  ELSE "swallowed"

\* The dispose function ui.show returned, applied to the notice: with toastr
\* the notice is a toastr toast and dispose does nothing.
Dispose(notice, h) == IF h.toastr THEN notice ELSE FALSE

\* No message is being handed to the MESSAGE_RECEIVED listener.
NoMessage == <<>>

\* ---------------------------------------------------- the result message
\* What a handler may return besides the values above: null, a number, an
\* array and a plain object with their elements (scalars), a plain object
\* that refers to itself, an instance of a class.
Null == [t |-> "null", v |-> ""]
Num(digits) == [t |-> "num", v |-> digits]
Arr(items) == [t |-> "array", v |-> "", items |-> items]
Obj(members) == [t |-> "object", v |-> "", items |-> members]
Member(key, value) == [key |-> key, value |-> value]
Circular == [t |-> "object", v |-> "circular", items |-> <<>>]
Instance == [t |-> "instance", v |-> ""]

\* isPlainObject(value), Array.isArray(value).
IsPlainObject(x) == x.t = "object"
IsArray(x) == x.t = "array"

\* The strings of s with sep between them.
RECURSIVE JoinWith(_, _)
JoinWith(s, sep) ==
  IF s = <<>> THEN ""
  ELSE IF Len(s) = 1 THEN s[1]
  ELSE s[1] \o sep \o JoinWith(Tail(s), sep)

\* JSON text of a scalar inside an array or an object.
JsonScalar(x) ==
  IF x.t = "str" THEN "\"" \o x.v \o "\""
  ELSE IF x.t \in {"num", "bool"} THEN x.v
  ELSE "null"

\* JSON.stringify(x, null, 2) of an array or a plain object of scalars: one
\* element per line, indented by two spaces; a member whose value is
\* undefined is left out.
JsonStringify(x) ==
  LET kept == IF IsArray(x) THEN x.items
              ELSE SelectSeq(x.items, LAMBDA m : m.value.t # "absent")
      line(e) == IF IsArray(x) THEN "  " \o JsonScalar(e)
                 ELSE "  \"" \o e.key \o "\": " \o JsonScalar(e.value)
      body == JoinWith([i \in 1..Len(kept) |-> line(kept[i])], ",\n")
  IN IF IsArray(x)
       THEN (IF kept = <<>> THEN "[]" ELSE "[\n" \o body \o "\n]")
       ELSE (IF kept = <<>> THEN "{}" ELSE "{\n" \o body \o "\n}")

\* safeJsonStringify: JSON.stringify throws on an object that refers to
\* itself, and the catch block falls back on safeString.
SafeJsonStringify(x) ==
  IF x.v = "circular" THEN SafeString(x, "") ELSE JsonStringify(x)

\* String(result) for every result.
PayloadAsString(result) == SafeString(result, "")

\* `payload` of runSkill.
Payload(result) ==
  IF result.t = "str" THEN result.v
  ELSE IF IsPlainObject(result) \/ IsArray(result) THEN SafeJsonStringify(result)
  ELSE SafeString(result, "")

\* The marker that stands for an empty payload.
EmptyResult == "(empty result)"

\* The result message: its three parts, which are joined by '\n'.
ResultMessage(skillName, result) ==
  <<"Skill result: " \o skillName, "---",
    IF Payload(result) = "" THEN EmptyResult ELSE Payload(result)>>

\* No result message has been handed over.
NoResult == [value |-> Absent, text |-> <<>>]

\* ------------------------------------------------------------ the parser
\* A text is a sequence of pieces: single characters, and the words CALL,
\* true, false, null, TRUE, FALSE, NULL as one piece each.  " " stands for any whitespace character, "a"
\* and "b" for the characters of [a-zA-Z0-9_.-] and "*" for any other
\* character.
\* \s
IsSpace(c) == c = " "
\* [a-zA-Z0-9_.-]; the letters of the words are such characters too.
IsNameChar(c) ==
  c \in {"a", "b", "0", "1", "-", ".", "CALL", "true", "false", "null", "TRUE",
         "FALSE", "NULL"}

\* The piece at position i, "" past the end of the text.
At(t, i) == IF i \in 1..Len(t) THEN t[i] ELSE ""

\* \s* from position i: the position of the first piece that is not
\* whitespace (Len(t) + 1 at the end of the text).
RECURSIVE SkipSpaces(_, _)
SkipSpaces(t, i) ==
  IF i <= Len(t) /\ IsSpace(t[i]) THEN SkipSpaces(t, i + 1) ELSE i

\* [a-zA-Z0-9_.-]* from position i, greedy.
RECURSIVE SkipName(_, _)
SkipName(t, i) ==
  IF i <= Len(t) /\ IsNameChar(t[i]) THEN SkipName(t, i + 1) ELSE i

\* The text without its trailing whitespace.
RECURSIVE TrimEnd(_)
TrimEnd(t) ==
  IF t # <<>> /\ IsSpace(t[Len(t)]) THEN TrimEnd(SubSeq(t, 1, Len(t) - 1)) ELSE t

\* The characters of the pieces of t, as one string.
RECURSIVE Join(_)
Join(t) == IF t = <<>> THEN "" ELSE t[1] \o Join(Tail(t))

Least(S) == CHOOSE x \in S : \A y \in S : x <= y

\* ----------------------------------------------------- argument coercion
\* The text without its leading whitespace.
RECURSIVE TrimStart(_)
TrimStart(t) == IF t # <<>> /\ IsSpace(t[1]) THEN TrimStart(Tail(t)) ELSE t

\* String.prototype.trim on a text.
TrimText(t) == TrimEnd(TrimStart(t))

\* t.startsWith(c), t.endsWith(c) for a character c.
StartsWith(t, c) == t # <<>> /\ t[1] = c
EndsWith(t, c) == t # <<>> /\ t[Len(t)] = c

\* t.indexOf(c), counted from 0; -1 when c is not in t.
IndexOf(t, c) ==
  IF \E i \in 1..Len(t) : t[i] = c
    THEN Least({i \in 1..Len(t) : t[i] = c}) - 1
    ELSE -1

\* t.split(c): the texts between the occurrences of c.
RECURSIVE Split(_, _)
Split(t, c) ==
  IF IndexOf(t, c) = -1 THEN <<t>>
  ELSE <<SubSeq(t, 1, IndexOf(t, c))>>
         \o Split(SubSeq(t, IndexOf(t, c) + 2, Len(t)), c)

IsDigit(c) == c \in {"0", "1"}

\* \d* from position i, greedy.
RECURSIVE SkipDigits(_, _)
SkipDigits(t, i) ==
  IF i <= Len(t) /\ IsDigit(t[i]) THEN SkipDigits(t, i + 1) ELSE i

\* The digits without leading zeros, one digit at least.
RECURSIVE DropLeadingZeros(_)
DropLeadingZeros(d) ==
  IF Len(d) > 1 /\ d[1] = "0" THEN DropLeadingZeros(Tail(d)) ELSE d

\* The digits without trailing zeros.
RECURSIVE DropTrailingZeros(_)
DropTrailingZeros(d) ==
  IF d # <<>> /\ d[Len(d)] = "0"
    THEN DropTrailingZeros(SubSeq(d, 1, Len(d) - 1)) ELSE d

\* The number that the numeral -?\d+(\.\d+)? denotes, written as JavaScript
\* prints it: no leading zeros, no trailing zeros in the fraction, no sign
\* for zero.
NumberOf(t) ==
  LET neg == StartsWith(t, "-")
      u == IF neg THEN Tail(t) ELSE t
      dot == IndexOf(u, ".")
      int == DropLeadingZeros(IF dot = -1 THEN u ELSE SubSeq(u, 1, dot))
      frac == IF dot = -1 THEN <<>>
              ELSE DropTrailingZeros(SubSeq(u, dot + 2, Len(u)))
      abs == Join(int) \o (IF frac = <<>> THEN "" ELSE "." \o Join(frac))
  IN Num(IF neg /\ abs # "0" THEN "-" \o abs ELSE abs)

\* /^-?\d+(\.\d+)?$/.test(t)
IsNumeral(t) ==
  LET i == IF StartsWith(t, "-") THEN 2 ELSE 1
      j == SkipDigits(t, i)
      k == SkipDigits(t, j + 1)
  IN /\ j > i
     /\ \/ j = Len(t) + 1
        \/ At(t, j) = "." /\ k > j + 1 /\ k = Len(t) + 1

\* What a parse step gives: whether it succeeded, the value, and the position
\* after it.
Failed == [ok |-> FALSE, value |-> Absent, next |-> 0]
Parsed(value, next) == [ok |-> TRUE, value |-> value, next |-> next]

\* obj[key] = value: the member takes the new value where it is, or is added
\* at the end.
SetMember(members, key, value) ==
  IF \E i \in 1..Len(members) : members[i].key = key
    THEN [i \in 1..Len(members) |->
            IF members[i].key = key THEN Member(key, value) ELSE members[i]]
    ELSE Append(members, Member(key, value))

\* JSON string at position i: from a double quote to the next one.
JsonString(t, i) ==
  LET Q == {j \in (i + 1)..Len(t) : t[j] = "\""}
  IN IF At(t, i) # "\"" \/ Q = {} THEN Failed
     ELSE Parsed(Str(Join(SubSeq(t, i + 1, Least(Q) - 1))), Least(Q) + 1)

\* JSON number at position i: -? (0 | [1-9]\d*) (\.\d+)?
JsonNumber(t, i) ==
  LET a == IF At(t, i) = "-" THEN i + 1 ELSE i
      b == IF At(t, a) = "0" THEN a + 1 ELSE SkipDigits(t, a)
      c == SkipDigits(t, b + 1)
      e == IF At(t, b) = "." /\ c > b + 1 THEN c ELSE b
  IN IF b = a \/ (At(t, b) = "." /\ c = b + 1) THEN Failed
     ELSE Parsed(NumberOf(SubSeq(t, i, e - 1)), e)

RECURSIVE JsonValue(_, _)
RECURSIVE JsonItems(_, _, _)
RECURSIVE JsonMembers(_, _, _)

\* The elements of a JSON array from position i, after those in acc.
JsonItems(t, i, acc) ==
  LET v == JsonValue(t, i)
      j == SkipSpaces(t, v.next)
  IN IF ~v.ok THEN Failed
     ELSE IF At(t, j) = "," THEN JsonItems(t, j + 1, Append(acc, v.value))
     ELSE IF At(t, j) = "]" THEN Parsed(Arr(Append(acc, v.value)), j + 1)
     ELSE Failed

\* The members of a JSON object from position i, after those in acc.
JsonMembers(t, i, acc) ==
  LET k == JsonString(t, SkipSpaces(t, i))
      c == SkipSpaces(t, k.next)
      v == JsonValue(t, c + 1)
      j == SkipSpaces(t, v.next)
  IN IF ~k.ok \/ At(t, c) # ":" THEN Failed
     ELSE IF ~v.ok THEN Failed
     ELSE IF At(t, j) = ","
       THEN JsonMembers(t, j + 1, SetMember(acc, k.value.v, v.value))
     ELSE IF At(t, j) = "}"
       THEN Parsed(Obj(SetMember(acc, k.value.v, v.value)), j + 1)
     ELSE Failed

\* The JSON value at position i, after optional whitespace.
JsonValue(t, i) ==
  LET j == SkipSpaces(t, i)
      c == At(t, j)
  IN IF c = "{"
       THEN (IF At(t, SkipSpaces(t, j + 1)) = "}"
               THEN Parsed(Obj(<<>>), SkipSpaces(t, j + 1) + 1)
               ELSE JsonMembers(t, j + 1, <<>>))
     ELSE IF c = "["
       THEN (IF At(t, SkipSpaces(t, j + 1)) = "]"
               THEN Parsed(Arr(<<>>), SkipSpaces(t, j + 1) + 1)
               ELSE JsonItems(t, j + 1, <<>>))
     ELSE IF c = "\"" THEN JsonString(t, j)
     ELSE IF c = "true" THEN Parsed(Bool(TRUE), j + 1)
     ELSE IF c = "false" THEN Parsed(Bool(FALSE), j + 1)
     ELSE IF c = "null" THEN Parsed(Null, j + 1)
     ELSE JsonNumber(t, j)

\* JSON.parse(t): one value and nothing but whitespace after it; ~ok when it
\* throws.
JsonParse(t) ==
  LET v == JsonValue(t, 1)
  IN IF v.ok /\ SkipSpaces(t, v.next) = Len(t) + 1 THEN v ELSE Failed

\* looksJson that knows braces only.
LooksJsonBraces(t) == StartsWith(t, "{") /\ EndsWith(t, "}")

\* looksJson
LooksJson(t) ==
  \/ StartsWith(t, "{") /\ EndsWith(t, "}")
  \/ StartsWith(t, "[") /\ EndsWith(t, "]")
  \/ StartsWith(t, "\"") /\ EndsWith(t, "\"")

\* The scalar a key=value chunk gives for the value text val.
InferScalar(val) ==
  IF \/ StartsWith(val, "\"") /\ EndsWith(val, "\"")
     \/ StartsWith(val, "'") /\ EndsWith(val, "'")
    THEN Str(Join(SubSeq(val, 2, Len(val) - 1)))
  ELSE IF IsNumeral(val) THEN NumberOf(val)
  ELSE IF val \in {<<"true">>, <<"TRUE">>} THEN Bool(TRUE)
  ELSE IF val \in {<<"false">>, <<"FALSE">>} THEN Bool(FALSE)
  ELSE IF val \in {<<"null">>, <<"NULL">>} THEN Null
  ELSE Str(Join(val))

\* The loop over the chunks: a chunk with no "=" or with "=" first is passed
\* over; any other chunk sets obj[key].
RECURSIVE KeyValues(_, _)
KeyValues(parts, obj) ==
  IF parts = <<>> THEN obj
  ELSE LET part == parts[1]
           idx == IndexOf(part, "=")
           key == TrimText(SubSeq(part, 1, idx))
           val == TrimText(SubSeq(part, idx + 2, Len(part)))
       IN IF idx <= 0 \/ key = <<>>
            THEN KeyValues(Tail(parts), obj)
            ELSE KeyValues(Tail(parts),
                           [members |-> SetMember(obj.members, Join(key),
                                                  InferScalar(val)),
                            parsedAny |-> TRUE])

\* A string value with its characters.
TextValue(t) == [t |-> "str", v |-> Join(t), chars |-> t]

\* safeString(raw, '') as a text, raw being a TextValue or undefined.
SafeText(raw) == IF raw.t = "str" THEN raw.chars ELSE <<>>

\* tryParseArgs without the try/catch around JSON.parse: text that looks
\* like JSON and does not parse makes it throw.
TryParseArgsUnguarded(raw) ==
  LET text == TrimText(SafeText(raw))
      json == JsonParse(text)
      parts == SelectSeq([i \in 1..Len(Split(text, ",")) |->
                            TrimText(Split(text, ",")[i])],
                         LAMBDA part : part # <<>>)
      kv == KeyValues(parts, [members |-> <<>>, parsedAny |-> FALSE])
  IN IF text = <<>>
       THEN [args |-> Obj(<<>>), raw |-> <<>>, branch |-> "empty"]
     ELSE IF LooksJson(text)
       THEN (IF json.ok THEN [args |-> json.value, raw |-> text, branch |-> "json"]
             ELSE [args |-> Absent, raw |-> text, branch |-> "throws"])
     ELSE IF kv.parsedAny
       THEN [args |-> Obj(kv.members), raw |-> text, branch |-> "keyvalue"]
     ELSE [args |-> Obj(<<Member("_raw", Str(Join(text)))>>), raw |-> text,
           branch |-> "opaque"]

\* tryParseArgs without its first return: the empty text goes on to the
\* other branches.
TryParseArgsNoEmpty(raw) ==
  LET text == TrimText(SafeText(raw))
      json == JsonParse(text)
      parts == SelectSeq([i \in 1..Len(Split(text, ",")) |->
                            TrimText(Split(text, ",")[i])],
                         LAMBDA part : part # <<>>)
      kv == KeyValues(parts, [members |-> <<>>, parsedAny |-> FALSE])
  IN IF LooksJson(text) /\ json.ok
       THEN [args |-> json.value, raw |-> text, branch |-> "json"]
     ELSE IF kv.parsedAny
       THEN [args |-> Obj(kv.members), raw |-> text, branch |-> "keyvalue"]
     ELSE [args |-> Obj(<<Member("_raw", Str(Join(text)))>>), raw |-> text,
           branch |-> "opaque"]

\* parser.tryParseArgs(raw), raw being a TextValue or undefined (Absent);
\* `branch` names the return statement taken.
TryParseArgs(raw) ==
  LET text == TrimText(SafeText(raw))
      json == JsonParse(text)
      parts == SelectSeq([i \in 1..Len(Split(text, ",")) |->
                            TrimText(Split(text, ",")[i])],
                         LAMBDA part : part # <<>>)
      kv == KeyValues(parts, [members |-> <<>>, parsedAny |-> FALSE])
  IN IF text = <<>>
       THEN [args |-> Obj(<<>>), raw |-> <<>>, branch |-> "empty"]
     ELSE IF LooksJson(text) /\ json.ok
       THEN [args |-> json.value, raw |-> text, branch |-> "json"]
     ELSE IF kv.parsedAny
       THEN [args |-> Obj(kv.members), raw |-> text, branch |-> "keyvalue"]
     ELSE [args |-> Obj(<<Member("_raw", Str(Join(text)))>>), raw |-> text,
           branch |-> "opaque"]

\* The regex as it is created, and nothing parsed yet.
NewParser == [lastIndex |-> 0, log |-> <<>>]

\* RegExp.exec returned null.
NoMatch == [from |-> 0, to |-> 0, name |-> <<>>, group |-> FALSE, body |-> <<>>]

\* CALL_RE tried at position i, accepting a "(" that nothing closes: the
\* rest of the text is taken as the argument text.
MatchAtUnclosed(t, i) ==
  LET c == SkipSpaces(t, i + 1)
      k == SkipSpaces(t, c + 1)
      n == SkipSpaces(t, k + 1)
      e == SkipName(t, n)
      p == SkipSpaces(t, e)
      b == SkipSpaces(t, p + 1)
      Closers == {j \in (p + 1)..Len(t) :
                    t[j] = ")" /\ At(t, SkipSpaces(t, j + 1)) = "]"}
  IN IF ~(At(t, i) = "[" /\ At(t, c) = "CALL" /\ At(t, k) = ":" /\ e > n)
       THEN NoMatch
     ELSE IF At(t, p) = "(" /\ Closers # {}
       THEN [from |-> i, to |-> SkipSpaces(t, Least(Closers) + 1),
             name |-> SubSeq(t, n, e - 1), group |-> TRUE,
             body |-> TrimEnd(SubSeq(t, b, Least(Closers) - 1))]
     ELSE IF At(t, p) = "("
       THEN [from |-> i, to |-> Len(t), name |-> SubSeq(t, n, e - 1),
             group |-> TRUE, body |-> TrimEnd(SubSeq(t, b, Len(t)))]
     ELSE IF At(t, p) = "]"
       THEN [from |-> i, to |-> p, name |-> SubSeq(t, n, e - 1),
             group |-> FALSE, body |-> <<>>]
     ELSE NoMatch

\* CALL_RE tried at position i of t:
\*   \[\s*CALL\s*:\s*([a-zA-Z0-9_.-]+)\s*(?:\(\s*([\s\S]*?)\s*\))?\s*\]
\* No piece after a \s* or after the name can be taken by it, so each of
\* them ends at one position only.  The optional group is tried first: its
\* lazy body grows until what follows is \s*\)\s*\], that is up to the first
\* ")" that has only whitespace between it and a "]"; the \s* ahead of that
\* ")" keeps the whitespace out of the body.  Without the group, "]" must
\* follow the name's whitespace.
MatchAt(t, i) ==
  LET c == SkipSpaces(t, i + 1)      \* \[\s*
      k == SkipSpaces(t, c + 1)      \* CALL\s*
      n == SkipSpaces(t, k + 1)      \* :\s*
      e == SkipName(t, n)            \* ([a-zA-Z0-9_.-]+)
      p == SkipSpaces(t, e)          \* \s*
      b == SkipSpaces(t, p + 1)      \* \(\s*
      Closers == {j \in (p + 1)..Len(t) :
                    t[j] = ")" /\ At(t, SkipSpaces(t, j + 1)) = "]"}
  IN IF ~(At(t, i) = "[" /\ At(t, c) = "CALL" /\ At(t, k) = ":" /\ e > n)
       THEN NoMatch
     ELSE IF At(t, p) = "(" /\ Closers # {}
       THEN [from |-> i, to |-> SkipSpaces(t, Least(Closers) + 1),
             name |-> SubSeq(t, n, e - 1), group |-> TRUE,
             body |-> TrimEnd(SubSeq(t, b, Least(Closers) - 1))]
     ELSE IF At(t, p) = "]"
       THEN [from |-> i, to |-> p, name |-> SubSeq(t, n, e - 1),
             group |-> FALSE, body |-> <<>>]
     ELSE NoMatch

\* The match at the rightmost position that has one.
ExecLast(t) ==
  LET S == {i \in 1..Len(t) : MatchAt(t, i) # NoMatch}
  IN IF S = {} THEN NoMatch
     ELSE MatchAt(t, CHOOSE x \in S : \A y \in S : y <= x)

\* CALL_RE.exec(t) of the global regex with lastIndex = from: the match at
\* the leftmost position after the first `from` pieces that has one.  (exec
\* then sets lastIndex to the end of the match, or to 0 when there is none.)
ExecFrom(t, from) ==
  LET S == {i \in (from + 1)..Len(t) : MatchAt(t, i) # NoMatch}
  IN IF S = {} THEN NoMatch ELSE MatchAt(t, Least(S))

\* exec without the reset: the search starts where the last one ended.
ExecAtLastIndex(t) == ExecFrom(t, parser.lastIndex)

\* CALL_RE.lastIndex = 0; CALL_RE.exec(t).
Exec(t) == ExecFrom(t, 0)

\* extractFirstCall returned null.
NoCall ==
  [skillName |-> "", args |-> Absent, rawArgs |-> <<>>, rawTag |-> <<>>,
   branch |-> "none"]

\* parser.extractFirstCall(text).  match[2] is undefined when the group took
\* no part.  `branch` is history: the return statement tryParseArgs took.
ExtractFirstCall(text) ==
  LET match == Exec(text)
      parsed == TryParseArgs(IF match.group THEN TextValue(match.body)
                                            ELSE Absent)
  IN IF match = NoMatch THEN NoCall
     ELSE [skillName |-> Trim(Join(match.name)),
           args |-> parsed.args,
           rawArgs |-> parsed.raw,
           rawTag |-> SubSeq(text, match.from, match.to),
           branch |-> parsed.branch]

\* The data of a MESSAGE_RECEIVED event: four fields that may hold the text;
\* <<>> is a field that is absent or the empty string (safeString gives ''
\* for both).
EventData(mes, message, text, content) ==
  [mes |-> mes, message |-> message, text |-> text, content |-> content]

\* The text the listener parses: the first of the four that is not empty.
MessageText(data) ==
  IF data.mes # <<>> THEN data.mes
  ELSE IF data.message # <<>> THEN data.message
  ELSE IF data.text # <<>> THEN data.text
  ELSE data.content

\* registry.listEnabled(): the descriptors with enabled = true, in the Map's
\* iteration order.
ListAll == [i \in 1..Len(order) |-> registry[order[i]]]

ListEnabled ==
  SelectSeq([i \in 1..Len(order) |-> registry[order[i]]], LAMBDA d : d.enabled)

\* ------------------------------------------------------ prompt injection
\* A string of a request payload, as its lines (what split('\n') gives).
Text(lines) == [t |-> "str", v |-> "", lines |-> lines]

EmptyText == Text(<<"">>)

\* trim() of a line of this model.
TrimLine(line) == IF line \in {" ", "  "} THEN "" ELSE Trim(line)

\* String.prototype.trim on a string given as its lines: the blank lines at
\* both ends go, and the whitespace around what is left.
RECURSIVE TrimLinesStart(_)
TrimLinesStart(lines) ==
  IF lines = <<>> THEN <<>>
  ELSE IF TrimLine(lines[1]) = "" THEN TrimLinesStart(Tail(lines))
  ELSE lines

RECURSIVE TrimLinesEnd(_)
TrimLinesEnd(lines) ==
  IF lines = <<>> THEN <<>>
  ELSE IF TrimLine(lines[Len(lines)]) = "" THEN TrimLinesEnd(SubSeq(lines, 1, Len(lines) - 1))
  ELSE lines

TrimLines(lines) ==
  LET kept == TrimLinesEnd(TrimLinesStart(lines))
  IN IF kept = <<>> THEN <<"">>
     ELSE [i \in 1..Len(kept) |->
             IF i = 1 \/ i = Len(kept) THEN TrimLine(kept[i]) ELSE kept[i]]

\* `${s.name}: ${s.description}` after "- ".
SkillLine(s) == "- " \o s.name \o ": " \o s.description

\* The lines of the system prompt before and after the list of skills.
PromptHead ==
  <<"You can call external skills via a strict text tag.",
    "When needed, output EXACTLY one call tag in this format:",
    "[CALL: skill_name({...json args...})]",
    "",
    "Available skills:">>

PromptRules ==
  <<"",
    "Rules:",
    "- Only output the call tag when you need a skill.",
    "- Use JSON args when possible.",
    "- After you receive a system message with the result, continue normally.">>

\* promptBuilder.buildSystemPrompt(): '' when no skill is enabled, else the
\* instructions with one line for every enabled skill.
BuildSystemPrompt ==
  LET enabled == ListEnabled
  IN IF enabled = <<>> THEN EmptyText
     ELSE Text(PromptHead \o [i \in 1..Len(enabled) |-> SkillLine(enabled[i])]
                 \o PromptRules)

\* The depth note names at most this many skills.
MaxNoteNames == 24

NoteHead ==
  "Author's Note (tool calling): If you need a skill, output a single tag like [CALL: skill_name({...})]. Skills: "

\* promptBuilder.buildDepthNote(): '' when no skill is enabled, else one line
\* with the names of the first MaxNoteNames enabled skills.
BuildDepthNote ==
  LET enabled == ListEnabled
      names == [i \in 1..Len(enabled) |-> enabled[i].name]
      first == SubSeq(names, 1, IF Len(names) < MaxNoteNames THEN Len(names)
                                ELSE MaxNoteNames)
  IN IF enabled = <<>> THEN EmptyText
     ELSE Text(<<NoteHead \o JoinWith(first, ", ")>>)

\* A message of the messages array.
Message(role, content) == [t |-> "message", role |-> role, content |-> content]

\* The payload of the event: an object with its messages, prompt,
\* chat_completion_prompt and text properties (Absent: no such property).
Payload4(messages, prompt, chatCompletionPrompt, text) ==
  [t |-> "object", messages |-> messages, prompt |-> prompt,
   chat_completion_prompt |-> chatCompletionPrompt, text |-> text]

\* `${obj[key]}\n\n${addition}`.trim()
AppendText(text, addition) ==
  Text(TrimLines(text.lines \o <<"">> \o addition.lines))

\* safeAppendToStringField(obj, key, addition): whether it would append.
CanAppend(field, addition) == addition # EmptyText /\ field.t = "str"

\* The index of the last message of role user whose content is a string, 0
\* when there is none.
LastUserMessage(items) ==
  LET users == {i \in 1..Len(items) :
                  /\ items[i].t = "message"
                  /\ items[i].role = "user"
                  /\ items[i].content.t = "str"}
  IN IF users = {} THEN 0 ELSE CHOOSE i \in users : \A j \in users : j <= i

\* injectPrompt(data): the payload as the listener leaves it.
InjectPrompt(data) ==
  LET systemPrompt == BuildSystemPrompt
      depthNote == BuildDepthNote
      pushed == IF systemPrompt # EmptyText
                  THEN Append(data.messages.items, Message("system", systemPrompt))
                  ELSE data.messages.items
      u == LastUserMessage(pushed)
      noted == IF depthNote # EmptyText /\ u > 0
                 THEN [pushed EXCEPT ![u].content = AppendText(pushed[u].content, depthNote)]
                 ELSE pushed
      both(field) == IF CanAppend(AppendText(field, systemPrompt), depthNote)
                       THEN AppendText(AppendText(field, systemPrompt), depthNote)
                       ELSE AppendText(field, systemPrompt)
  IN IF systemPrompt = EmptyText /\ depthNote = EmptyText THEN data
     ELSE IF data.t # "object" THEN data
     ELSE IF data.messages.t = "array"
       THEN [data EXCEPT !.messages = Arr(noted)]
     ELSE IF CanAppend(data.prompt, systemPrompt)
       THEN [data EXCEPT !.prompt = both(data.prompt)]
     ELSE IF CanAppend(data.chat_completion_prompt, systemPrompt)
       THEN [data EXCEPT !.chat_completion_prompt = both(data.chat_completion_prompt)]
     ELSE IF CanAppend(data.text, systemPrompt)
       THEN [data EXCEPT !.text = both(data.text)]
     ELSE data

\* No CHAT_COMPLETION_PROMPT_READY event is at hand.
NoRequest == [data |-> Absent, result |-> Absent, handled |-> TRUE]

\* The example's skills are called at most MaxCalls times.
MaxCalls == 3

\* --------------------------------------- worldbook example (versioned edits)
\* A number among the arguments of a call, or the uid of an entry.
IntValue(k) == [t |-> "int", v |-> "", n |-> k]

\* a ?? b
Coalesce(a, b) == IF a.t \in {"absent", "null"} THEN b ELSE a

\* Whether `x ? ... : ...` takes its first branch.
Truthy(x) ==
  CASE x.t \in {"absent", "null"} -> FALSE
    [] x.t = "int" -> x.n # 0
    [] x.t = "str" -> x.v # ""
    [] x.t = "bool" -> x.v = "true"
    [] OTHER -> TRUE

\* The uids of the entries of the book, and the title of each.
EntryUids == {1, 2}

EntryName(uid) == IF uid = 1 THEN "x" ELSE "y"

\* findEntry(entries, entrySelector): the uid of the entry found, 0 for none.
\* A number selects by uid, a string by title.
FindEntry(sel) ==
  CASE sel.t = "int" /\ sel.n \in EntryUids -> sel.n
    [] sel.t = "str" /\ (\E u \in EntryUids : EntryName(u) = Trim(sel.v))
         -> CHOOSE u \in EntryUids : EntryName(u) = Trim(sel.v)
    [] OTHER -> 0

\* No call of a skill of the example yet.
NoCallYet == [op |-> "none", args |-> Absent, uid |-> 0, ok |-> FALSE]

\* The book as the example finds it: entry 1 has a content, entry 2 is
\* empty, and localStorage holds no version record.
NewBook ==
  [content |-> [u \in EntryUids |-> IF u = 1 THEN "c" ELSE ""],
   versions |-> [u \in EntryUids |-> <<>>],
   calls |-> 0,
   last |-> NoCallYet]

\* addVersion({bookKey, entryKey, before, after, meta}) on the list of one
\* entry: the new record goes last, with the id after the last one's.
AddVersion(list, before, after, restoreFrom) ==
  LET lastId == IF list = <<>> THEN 0 ELSE list[Len(list)].id
  IN Append(list, [id |-> lastId + 1, before |-> before, after |-> after,
                   restoreFrom |-> restoreFrom])

\* getVersion(target, versionId): the first record with that id, Absent
\* (null) for none.
GetVersion(list, versionId) ==
  LET found == {i \in 1..Len(list) : versionId.t = "int" /\ list[i].id = versionId.n}
  IN IF found = {} THEN Absent
     ELSE list[CHOOSE i \in found : \A j \in found : i <= j]

\* getPreviousVersion(target): the last record, Absent (null) for none.
GetPreviousVersion(list) == IF list = <<>> THEN Absent ELSE list[Len(list)]

\* The arguments of worldbook.apply_patch.
PatchArgs(entry, id, mode, text, dryRun) ==
  [text |-> text, id |-> id, entry |-> entry, mode |-> mode, dryRun |-> dryRun]

\* The arguments of worldbook.restore.
RestoreArgs(entry, id, versionId) ==
  [id |-> id, entry |-> entry, versionId |-> versionId]

\* The content after the patch.
Patched(before, mode, patchText) ==
  CASE mode = "append" -> before \o (IF before # "" THEN "\n" ELSE "") \o patchText
    [] mode = "prepend" -> patchText \o (IF before # "" THEN "\n" ELSE "") \o before
    [] OTHER -> patchText

\* ---------------------------------------------------------------- Init
\* The engine and the registry as they are constructed.
\* The creator panel before anything is saved: localStorage holds no skill,
\* registeredNames is empty, the form edits no skill.
NewCreator == [store |-> <<>>, registeredNames |-> {}, editingName |-> ""]

FreshEngine ==
  /\ now = 0
  /\ registry = <<>>
  /\ queue = <<>>
  /\ running = {}
  /\ recentCallTimestamps = <<>>
  /\ nEnq = 0
  /\ nStarted = 0
  /\ attemptLog = <<>>
  /\ recentArrivals = <<>>
  /\ faulted = FALSE
  /\ everDisabled = FALSE
  /\ order = <<>>
  /\ ret = NoRet
  /\ lastResult = NoResult
  /\ worldbook = NewBook
  /\ parser = NewParser
  /\ creator = NewCreator
  /\ enqueueLog = <<>>

\* The same, and no model request is being prepared.
Fresh ==
  /\ FreshEngine
  /\ request = NoRequest

\* After construction, on a healthy host page, no event pending.
Init ==
  /\ Fresh
  /\ host = HealthyHost
  /\ received = NoMessage
  /\ arg = NoConfig

\* ------------------------------------------------------------- actions
\* The clock moves on.
Tick ==
  /\ now < MaxTicks * TickMs
  /\ now' = now + TickMs
  /\ recentArrivals' = KeepRecent(recentArrivals, now')
  /\ UNCHANGED <<registry, queue, running, recentCallTimestamps, nEnq,
                 nStarted, attemptLog, faulted, everDisabled, order, ret, host,
                 received, arg, lastResult, request, worldbook, parser, creator, enqueueLog>>

\* register without its try/catch: a fault of normalizeConfig reaches the caller.
RegisterCfgUnguarded(cfg) ==
  /\ IF cfg.kind = "throws"
       THEN /\ ret' = "<raised>"
            /\ UNCHANGED <<registry, order, everDisabled>>
       ELSE LET n == NormalizeConfig(cfg, now)
            IN /\ registry' = MapSet(registry, n.name, n)
               /\ order' = OrderSet(order, n.name)
               /\ ret' = n.name
               /\ everDisabled' = (everDisabled \/ ~n.enabled)
  /\ UNCHANGED <<now, queue, running, recentCallTimestamps, nEnq, nStarted,
                 attemptLog, recentArrivals, faulted, host, received,
                 arg, lastResult, request, worldbook, parser, creator, enqueueLog>>

\* register that keeps the descriptor a name already has.
RegisterCfgFirstWins(cfg) ==
  /\ IF cfg.kind = "throws"
       THEN /\ ret' = NullRet
            /\ UNCHANGED <<registry, order, everDisabled>>
       ELSE LET n == NormalizeConfig(cfg, now)
            IN /\ registry' = IF n.name \in DOMAIN registry THEN registry
                                ELSE MapSet(registry, n.name, n)
               /\ order' = OrderSet(order, n.name)
               /\ ret' = n.name
               /\ everDisabled' = (everDisabled \/ ~n.enabled)
  /\ UNCHANGED <<now, queue, running, recentCallTimestamps, nEnq, nStarted,
                 attemptLog, recentArrivals, faulted, host, received,
                 arg, lastResult, request, worldbook, parser, creator, enqueueLog>>

\* registry.register(skillConfig): normalize, skills.set, return the name; a
\* fault is caught and null is returned.
RegisterCfg(cfg) ==
  /\ IF cfg.kind = "throws"
       THEN /\ ret' = NullRet
            /\ UNCHANGED <<registry, order, everDisabled>>
       ELSE LET n == NormalizeConfig(cfg, now)
            IN /\ registry' = MapSet(registry, n.name, n)
               /\ order' = OrderSet(order, n.name)
               /\ ret' = n.name
               /\ everDisabled' = (everDisabled \/ ~n.enabled)
  /\ UNCHANGED <<now, queue, running, recentCallTimestamps, nEnq, nStarted,
                 attemptLog, recentArrivals, faulted, host, received,
                 arg, lastResult, request, worldbook, parser, creator, enqueueLog>>

\* window.STAgentSkills.register({name, description, action, enabled}).
Register(name, enabled) == RegisterCfg(SkillConfig(name, enabled))

\* registry.remove(name), for a name that is registered.
Remove(name) ==
  /\ name \in DOMAIN registry
  /\ registry' = MapDelete(registry, name)
  /\ order' = OrderDelete(order, name)
  /\ everDisabled' = TRUE
  /\ UNCHANGED <<now, queue, running, recentCallTimestamps, nEnq, nStarted,
                 attemptLog, recentArrivals, faulted, ret, host, received,
                 arg, lastResult, request, worldbook, parser, creator, enqueueLog>>

\* engine.enqueue(call) for a call that names `name` with the structured
\* arguments `args` and the argument text `rawArgs`: one more link on the
\* lane.
EngineEnqueueCall(name, args, rawArgs) ==
  /\ nEnq < MaxReq
  /\ Len(queue) < MaxPending
  /\ nEnq' = nEnq + 1
  /\ queue' = Chain(queue,
       [id |-> nEnq + 1, skillName |-> name, args |-> args, rawArgs |-> rawArgs,
        \* history: five calls to enabled skills arrived in the BurstSpanMs
        \* before this one, itself a call to an enabled skill
        sixth |-> Usable(name) /\ Len(recentArrivals) >= MAX_CALLS_PER_WINDOW])
  /\ recentArrivals' = IF Usable(name) THEN LastCalls(Append(recentArrivals, now))
                                       ELSE recentArrivals
  /\ UNCHANGED <<now, registry, running, recentCallTimestamps, nStarted,
                 attemptLog, faulted, everDisabled, order, ret, host,
                 arg, lastResult, request, worldbook,
                 creator>>

\* engine.enqueue(call) for a call that names `name` and has no argument
\* text.
EngineEnqueue(name) == EngineEnqueueCall(name, Obj(<<>>), <<>>)

\* The MESSAGE_RECEIVED listener for a message whose first call tag names
\* `name`: engine.enqueue(call).  It may run at any moment, also while an
\* invocation is suspended in the host's generate().
Enqueue(name) == EngineEnqueue(name) /\ UNCHANGED <<received, parser, enqueueLog>>

\* Start with the registry lookup ahead of the breaker: a call of an unknown
\* or disabled skill is answered without being counted.
StartLookupFirst(i) ==
  /\ i \in 1..Len(queue)
  /\ LaneReady(queue[i].id)
  /\ LET call == queue[i]
         ts == BumpCircuitBreaker(recentCallTimestamps, now)
     IN IF ~Usable(call.skillName)
          THEN /\ recentCallTimestamps' = recentCallTimestamps
               /\ attemptLog' = Append(attemptLog, [t |-> now, refused |-> FALSE])
               /\ running' = running \cup
                    {Invocation(call, "notice", <<"notfound">>, FALSE)}
          ELSE /\ recentCallTimestamps' = ts
               /\ attemptLog' =
                    Append(attemptLog, [t |-> now, refused |-> Tripped(Len(ts))])
               /\ running' = running \cup
                    { IF Tripped(Len(ts))
                        THEN Invocation(call, "notice", <<"breaker">>, FALSE)
                        ELSE Invocation(call, "handler", <<>>, TRUE) }
  /\ queue' = Without(queue, i)
  /\ nStarted' = nStarted + 1
  /\ UNCHANGED <<now, registry, nEnq, recentArrivals, faulted, everDisabled,
                 order, ret, host, received, arg, lastResult, request, worldbook, parser, creator, enqueueLog>>

\* The lane runs the callback of link i: runSkill up to its first await.
\* The breaker is bumped and checked; a refused call gets the breaker notice;
\* else the skill is looked up, and a missing or disabled one gets the
\* not-found notice; else the "executing" notice is shown and the handler is
\* called.
Start(i) ==
  /\ i \in 1..Len(queue)
  /\ LaneReady(queue[i].id)
  /\ LET call == queue[i]
         ts == BumpCircuitBreaker(recentCallTimestamps, Stamp(call))
         count == Len(ts)
     IN /\ recentCallTimestamps' = ts
        /\ attemptLog' = Append(attemptLog,
                                [t |-> Stamp(call), refused |-> Tripped(count)])
        /\ running' = running \cup
             { IF Tripped(count)
                 THEN Invocation(call, "notice", <<"breaker">>, FALSE)
                 ELSE IF ~Usable(call.skillName)
                   THEN Invocation(call, "notice", <<"notfound">>, FALSE)
                   ELSE Invocation(call, "handler", <<>>, TRUE) }
  /\ queue' = Without(queue, i)
  /\ nStarted' = nStarted + 1
  /\ UNCHANGED <<now, registry, nEnq, recentArrivals, faulted, everDisabled,
                 order, ret, host, received, arg, lastResult, request, worldbook,
                 parser, creator, enqueueLog>>

\* runSkill moves on from r to the record s.
Moves(r, s) ==
  /\ running' = (running \ {r}) \cup {s}
  /\ UNCHANGED <<now, registry, queue, recentCallTimestamps, nEnq, nStarted,
                 attemptLog, recentArrivals, everDisabled, order, ret, host,
                 received, arg, request, worldbook, parser, creator, enqueueLog>>

\* runSkill moves on from r to the record s; the text and the value of the
\* result are not looked at.
Becomes(r, s) == Moves(r, s) /\ UNCHANGED lastResult

\* The await of the breaker or not-found notice ends: runSkill returns; a
\* rejection would leave runSkill, these awaits being outside the try.
NoticeDelivered(r) ==
  /\ r.pc = "notice"
  /\ Becomes(r, [r EXCEPT !.pc = IF AddSystemMessage(host) = "rejected"
                                   THEN "rejected" ELSE "done"])
  /\ UNCHANGED faulted

\* The handler's promise is fulfilled: the result message is handed to
\* addSystemMessage.
HandlerReturn(r) ==
  /\ r.pc = "handler"
  /\ Becomes(r, [r EXCEPT !.pc = "result", !.hres = "returned",
                           !.out = Append(@, "result")])
  /\ UNCHANGED faulted

\* The handler's promise is fulfilled with `result`: the result message
\* built from it is handed to addSystemMessage.
HandlerReturnValue(r, result) ==
  /\ r.pc = "handler"
  /\ Moves(r, [r EXCEPT !.pc = "result", !.hres = "returned",
                         !.out = Append(@, "result")])
  /\ lastResult' = [value |-> result, text |-> ResultMessage(r.skillName, result)]
  /\ UNCHANGED faulted

\* There is no catch block: the fault leaves runSkill, nothing is delivered.
HandlerThrowEscapes(r) ==
  /\ r.pc = "handler"
  /\ Becomes(r, [r EXCEPT !.pc = "rejected", !.hres = "threw"])
  /\ faulted' = TRUE

\* The catch block logs the fault and delivers nothing.
HandlerThrowSilent(r) ==
  /\ r.pc = "handler"
  /\ Becomes(r, [r EXCEPT !.pc = "failure", !.hres = "threw"])
  /\ faulted' = TRUE

\* The handler throws or its promise is rejected: the catch block hands the
\* failure message to addSystemMessage.
HandlerThrow(r) ==
  /\ r.pc = "handler"
  /\ Becomes(r, [r EXCEPT !.pc = "failure", !.hres = "threw",
                           !.out = Append(@, "failure")])
  /\ faulted' = TRUE

\* The await of the result message ends: triggerGenerate is called; a
\* rejection would be caught by the catch block, which hands the failure
\* message to addSystemMessage.
ResultDelivered(r) ==
  /\ r.pc = "result"
  /\ IF AddSystemMessage(host) = "rejected"
       THEN Becomes(r, [r EXCEPT !.pc = "failure", !.out = Append(@, "failure")])
       ELSE Becomes(r, [r EXCEPT !.pc = "generate", !.out = Append(@, "generate")])
  /\ UNCHANGED faulted

\* The await of triggerGenerate ends; finally: dispose.  A rejection would be
\* caught by the catch block.
GenerateReturned(r) ==
  /\ r.pc = "generate"
  /\ IF TriggerGenerate(host) = "rejected"
       THEN Becomes(r, [r EXCEPT !.pc = "failure", !.out = Append(@, "failure")])
       ELSE Becomes(r, [r EXCEPT !.pc = "done",
                                 !.notice = Dispose(r.notice, host)])
  /\ UNCHANGED faulted

\* triggerGenerate is called after the try statement, on every path.
FailureDeliveredThenGenerate(r) ==
  /\ r.pc = "failure"
  /\ Becomes(r, [r EXCEPT !.pc = "generate", !.out = Append(@, "generate")])
  /\ UNCHANGED faulted

\* The await of the failure message ends; finally: dispose.  A rejection
\* would leave runSkill after the finally block.
FailureDelivered(r) ==
  /\ r.pc = "failure"
  /\ Becomes(r, [r EXCEPT !.pc = IF AddSystemMessage(host) = "rejected"
                                   THEN "rejected" ELSE "done",
                           !.notice = Dispose(r.notice, host)])
  /\ UNCHANGED faulted

\* runSkill's promise is settled (a rejection goes to the .catch of enqueue,
\* which logs it), and with it the link: the next link may run.
Settle(r) ==
  /\ r.pc \in {"done", "rejected"}
  /\ running' = running \ {r}
  /\ enqueueLog' =
       [k \in DOMAIN enqueueLog |->
          IF k = r.id THEN [enqueueLog[k] EXCEPT !.ended = now] ELSE enqueueLog[k]]
  /\ UNCHANGED <<now, registry, queue, recentCallTimestamps, nEnq, nStarted,
                 attemptLog, recentArrivals, faulted, everDisabled, order, ret,
                 host, received, arg, lastResult, request, worldbook, parser,
                 creator>>

Next ==
  \/ Tick
  \/ \E name \in Registrable, enabled \in BOOLEAN : Register(name, enabled)
  \/ \E name \in SkillNames : Enqueue(name)
  \/ \E i \in 1..Len(queue) : Start(i)
  \/ \E r \in running : NoticeDelivered(r)
  \/ \E r \in running : HandlerReturn(r)
  \/ \E r \in running : HandlerThrow(r)
  \/ \E r \in running : ResultDelivered(r)
  \/ \E r \in running : GenerateReturned(r)
  \/ \E r \in running : FailureDelivered(r)
  \/ \E r \in running : Settle(r)

Spec == Init /\ [][Next]_vars

\* ------------------------------------------- the engine on any host page
\* The config that replaces the action of a registered skill by another one.
OtherActionConfig(name) ==
  Config("object", Str(name), Str("d"), Fn("h2"), Bool(TRUE))

\* register for a name that is registered already, with another action.
Reregister(name) ==
  /\ name \in DOMAIN registry
  /\ RegisterCfg(OtherActionConfig(name))

\* The listener enqueues a call, at most MaxHostReq times.
HostEnqueue(name) == nEnq < MaxHostReq /\ Enqueue(name)

\* toastr takes the notice off the screen when its own timer ends.
ToastExpires(r) ==
  /\ host.toastr
  /\ r.notice
  /\ Becomes(r, [r EXCEPT !.notice = FALSE])
  /\ UNCHANGED faulted

HostInit ==
  /\ Fresh
  /\ host \in Hosts
  /\ received = NoMessage
  /\ arg = NoConfig

HostNext ==
  \/ \E name \in Registrable, enabled \in BOOLEAN : Register(name, enabled)
  \/ \E name \in Registrable : Reregister(name)
  \/ \E name \in SkillNames : HostEnqueue(name)
  \/ \E i \in 1..Len(queue) : Start(i)
  \/ \E r \in running : NoticeDelivered(r)
  \/ \E r \in running : HandlerReturn(r)
  \/ \E r \in running : HandlerThrow(r)
  \/ \E r \in running : ResultDelivered(r)
  \/ \E r \in running : GenerateReturned(r)
  \/ \E r \in running : FailureDelivered(r)
  \/ \E r \in running : ToastExpires(r)
  \/ \E r \in running : Settle(r)

HostSpec == HostInit /\ [][HostNext]_vars

\* ------------------------------------------- the wait in the lane
\* The listener enqueues a call, at most MaxHostReq times; the time and the
\* registry's descriptor for the name are noted (history).
WaitEnqueue(name) ==
  /\ nEnq < MaxHostReq
  /\ EngineEnqueue(name)
  /\ enqueueLog' = Append(enqueueLog,
                          [at |-> now, found |-> Get(name), ended |-> -1])
  /\ UNCHANGED <<received, parser>>

\* While calls wait in the lane and while handlers run, skills are
\* registered, registered again with another action, disabled and removed.
WaitNext ==
  \/ \E name \in Registrable, enabled \in BOOLEAN : Register(name, enabled)
  \/ \E name \in Registrable : Reregister(name)
  \/ \E name \in Registrable : Remove(name)
  \/ \E name \in SkillNames : WaitEnqueue(name)
  \/ \E i \in 1..Len(queue) : Start(i)
  \/ \E r \in running : NoticeDelivered(r)
  \/ \E r \in running : HandlerReturn(r)
  \/ \E r \in running : HandlerThrow(r)
  \/ \E r \in running : ResultDelivered(r)
  \/ \E r \in running : GenerateReturned(r)
  \/ \E r \in running : FailureDelivered(r)
  \/ \E r \in running : Settle(r)

WaitSpec == Init /\ [][WaitNext]_vars

\* While calls wait in the lane and while handlers run, time passes.
StampNext ==
  \/ Tick
  \/ \E name \in Registrable, enabled \in BOOLEAN : Register(name, enabled)
  \/ \E name \in SkillNames : WaitEnqueue(name)
  \/ \E i \in 1..Len(queue) : Start(i)
  \/ \E r \in running : NoticeDelivered(r)
  \/ \E r \in running : HandlerReturn(r)
  \/ \E r \in running : HandlerThrow(r)
  \/ \E r \in running : ResultDelivered(r)
  \/ \E r \in running : GenerateReturned(r)
  \/ \E r \in running : FailureDelivered(r)
  \/ \E r \in running : Settle(r)

StampSpec == Init /\ [][StampNext]_vars

\* Every callback that is ready runs: a link whose predecessor has settled
\* starts, and an invocation whose handler or host call has ended resumes.
\* That handlers and host calls do end is the hypothesis under which the
\* engine is studied here.
LiveInit ==
  /\ Fresh
  /\ host \in LiveHosts
  /\ received = NoMessage
  /\ arg = NoConfig

LiveSpec ==
  /\ LiveInit
  /\ [][HostNext]_vars
  /\ WF_vars(\E i \in 1..Len(queue) : Start(i))
  /\ WF_vars(\E r \in running : NoticeDelivered(r))
  /\ WF_vars(\E r \in running : HandlerReturn(r) \/ HandlerThrow(r))
  /\ WF_vars(\E r \in running : ResultDelivered(r))
  /\ WF_vars(\E r \in running : GenerateReturned(r))
  /\ WF_vars(\E r \in running : FailureDelivered(r))
  /\ WF_vars(\E r \in running : Settle(r))

\* ------------------------------------------------- the registry alone
\* The arguments given to register: every combination of a name (missing,
\* blank, plain, padded), a description (missing or given), an action (missing,
\* not a function, a function) and an enabled flag (missing, not a boolean,
\* true, false); a value that is no object; an object that throws when read.
RegConfigs ==
  { Config("object", n, d, a, e) :
      n \in {Absent, Str("  "), Str("a"), Str(" a ")},
      d \in {Absent, Str("d")},
      a \in {Absent, Other, Fn("h1")},
      e \in {Absent, Other, Bool(TRUE), Bool(FALSE)} }
  \cup { Config("other", Absent, Absent, Absent, Absent),
         Config("throws", Absent, Absent, Absent, Absent) }

\* The clock of the registry runs: half a second passes.
RegTickMs == 1000 \div 2

RegTick ==
  /\ now < MaxRegTicks * RegTickMs
  /\ now' = now + RegTickMs
  /\ recentArrivals' = KeepRecent(recentArrivals, now')
  /\ UNCHANGED <<registry, queue, running, recentCallTimestamps, nEnq,
                 nStarted, attemptLog, faulted, everDisabled, order, ret, host,
                 received, arg, lastResult, request, worldbook, parser, creator, enqueueLog>>

RegNext ==
  \/ RegTick
  \/ \E cfg \in RegConfigs : RegisterCfg(cfg)
  \/ \E name \in DOMAIN registry : Remove(name)

RegSpec == Init /\ [][RegNext]_vars

\* ------------------------------------------------- prompt injection runs
\* The messages array of a payload has at most MaxMessages messages.
MaxMessages == 2

\* What a message can hold: a string, a string with whitespace around it, or
\* something that is not a string (an array of parts).
Contents == {Text(<<"hi">>), Text(<<" a ", "">>), Other}

\* The entries of a messages array: messages of the user and of the
\* assistant, a system message, and null.
PayloadMessages ==
  {Message(role, content) : role \in {"user", "assistant"}, content \in Contents}
    \cup {Message("system", Text(<<"hi">>)), Null}

\* What a string property of the payload can be: missing, not a string, a
\* string, the empty string.
Fields == {Absent, Other, Text(<<"p">>), EmptyText}

\* The payloads of CHAT_COMPLETION_PROMPT_READY: with a messages array, with
\* string properties only, and no payload at all.
Payloads ==
  {Payload4(Arr(items), prompt, Absent, Absent) :
     items \in UNION {[1..k -> PayloadMessages] : k \in 0..MaxMessages},
     prompt \in {Absent, Text(<<"p">>)}}
    \cup {Payload4(messages, prompt, chat, text) :
            messages \in {Absent, Other}, prompt \in Fields, chat \in Fields,
            text \in Fields}
    \cup {Absent}

\* The event as the host emits it.
Prepared(data) == [data |-> data, result |-> data, handled |-> FALSE]

\* The CHAT_COMPLETION_PROMPT_READY listener: it calls injectPrompt(data),
\* which changes the payload in place.
PromptReady ==
  /\ ~request.handled
  /\ request' = [request EXCEPT !.result = InjectPrompt(request.data),
                                !.handled = TRUE]
  /\ UNCHANGED <<now, registry, queue, running, recentCallTimestamps, nEnq,
                 nStarted, attemptLog, recentArrivals, faulted, everDisabled,
                 order, ret, host, received, arg, lastResult, worldbook, parser, creator, enqueueLog>>

\* The host is preparing one model request, with any payload; skills are
\* registered and removed before and after the event.
InjectInit ==
  /\ FreshEngine
  /\ host = HealthyHost
  /\ received = NoMessage
  /\ arg = NoConfig
  /\ request \in {Prepared(data) : data \in Payloads}

InjectNext ==
  \/ \E name \in SkillNames, enabled \in BOOLEAN : Register(name, enabled)
  \/ \E name \in DOMAIN registry : Remove(name)
  \/ PromptReady

InjectSpec == InjectInit /\ [][InjectNext]_vars

\* ------------------------------------------------ worldbook example runs
\* The call is over; it changed nothing.
NothingChanged(op, args, uid) ==
  worldbook' = [worldbook EXCEPT !.calls = @ + 1,
                  !.last = [op |-> op, args |-> args, uid |-> uid, ok |-> FALSE]]

\* applyPatch(args), args having the properties entry, id, mode, text and
\* dryRun; `saved` tells whether st.saveWorldBook went through.
ApplyPatch(entry, id, mode, text, dryRun, saved) ==
  LET args == PatchArgs(entry, id, mode, text, dryRun)
      uid == FindEntry(Coalesce(args.entry, args.id))
      patchText == Trim(SafeString(args.text, ""))
      before == worldbook.content[uid]
      after == Patched(before, args.mode, patchText)
  IN /\ worldbook.calls < MaxCalls
     /\ IF uid = 0 \/ patchText = "" THEN NothingChanged("apply_patch", args, uid)
        ELSE IF args.dryRun
          THEN worldbook' = [worldbook EXCEPT !.calls = @ + 1,
                 !.last = [op |-> "apply_patch", args |-> args, uid |-> uid, ok |-> TRUE]]
        ELSE IF ~saved THEN NothingChanged("apply_patch", args, uid)
        ELSE worldbook' = [worldbook EXCEPT
               !.content[uid] = after,
               !.versions[uid] = AddVersion(@, before, after, 0),
               !.calls = @ + 1,
               !.last = [op |-> "apply_patch", args |-> args, uid |-> uid, ok |-> TRUE]]
     /\ UNCHANGED <<now, registry, queue, running, recentCallTimestamps, nEnq,
                    nStarted, attemptLog, recentArrivals, faulted, everDisabled,
                    order, ret, host, received, arg, lastResult, request, parser, creator, enqueueLog>>

\* restore(args), args having the properties entry, id and versionId;
\* `saved` tells whether st.saveWorldBook went through.
Restore(entry, id, givenId, saved) ==
  LET args == RestoreArgs(entry, id, givenId)
      uid == FindEntry(Coalesce(args.entry, args.id))
      versionId == Coalesce(args.versionId, args.id)
      v == IF Truthy(versionId) THEN GetVersion(worldbook.versions[uid], versionId)
           ELSE GetPreviousVersion(worldbook.versions[uid])
      before == worldbook.content[uid]
      after == IF Truthy(versionId) THEN v.after ELSE v.before
  IN /\ worldbook.calls < MaxCalls
     /\ IF uid = 0 THEN NothingChanged("restore", args, uid)
        ELSE IF v = Absent \/ ~saved THEN NothingChanged("restore", args, uid)
        ELSE worldbook' = [worldbook EXCEPT
               !.content[uid] = after,
               !.versions[uid] = AddVersion(@, before, after, v.id),
               !.calls = @ + 1,
               !.last = [op |-> "restore", args |-> args, uid |-> uid, ok |-> TRUE]]
     /\ UNCHANGED <<now, registry, queue, running, recentCallTimestamps, nEnq,
                    nStarted, attemptLog, recentArrivals, faulted, everDisabled,
                    order, ret, host, received, arg, lastResult, request, parser, creator, enqueueLog>>

\* How the calls name an entry, under `entry` or under `id`.
Selectors == {Absent, IntValue(1), IntValue(2), Str("x")}

\* The version ids the calls give.
VersionIds == {Absent, IntValue(0), IntValue(1), IntValue(2)}

WorldbookNext ==
  \/ \E entry \in Selectors, id \in {Absent, IntValue(1)},
        mode \in {"replace", "append", "prepend"}, text \in {"A", ""},
        dryRun \in BOOLEAN, saved \in BOOLEAN :
       ApplyPatch(entry, id, mode, Str(text), dryRun, saved)
  \/ \E entry \in Selectors, id \in {Absent, IntValue(1)}, versionId \in VersionIds,
        saved \in BOOLEAN :
       Restore(entry, id, versionId, saved)

WorldbookSpec == Init /\ [][WorldbookNext]_vars

\* ------------------------------------------- one argument of register
\* register is called with the argument under study, at any time and any
\* number of times.
RegisterArg == arg # NoConfig /\ RegisterCfg(arg)

DefaultsInit ==
  /\ Fresh
  /\ host = HealthyHost
  /\ received = NoMessage
  /\ arg \in RegConfigs

DefaultsNext ==
  \/ RegTick
  \/ RegisterArg

DefaultsSpec == DefaultsInit /\ [][DefaultsNext]_vars

\* ------------------------------------------- one message to the listener
\* The longest text under study, in pieces.
MaxPieces == 4

\* The start of a tag that calls skill a.
TagHead == <<"[", "CALL", ":", "a">>

\* What the texts under study are made of: each character, and TagHead.
Pieces ==
  {<<"[">>, <<"]">>, <<"CALL">>, <<":">>, <<" ">>, <<"a">>, <<"(">>, <<")">>,
   <<"*">>, TagHead}

RECURSIVE Flatten(_)
Flatten(ps) == IF ps = <<>> THEN <<>> ELSE ps[1] \o Flatten(Tail(ps))

\* Every text of at most MaxPieces pieces.
Texts == {Flatten(ps) : ps \in UNION {[1..k -> Pieces] : k \in 0..MaxPieces}}

\* What the fields of an event hold when several of them are filled.
FieldTexts == {<<>>, <<"*">>, TagHead \o <<"]">>}

\* Whole tags, without argument text, with a blank and with a non-blank one,
\* and texts that are nearly tags: no colon, a "(" that nothing closes.
Fragments ==
  {<<"[", "CALL", ":", "a", "]">>,
   <<"[", "CALL", ":", "a", "(", " ", " ", ")", "]">>,
   <<"[", " ", "CALL", ":", "b", "]">>,
   <<"[", "CALL", ":", "b", "(", "*", ")", " ", "]">>,
   <<"[", "CALL", "a", "]">>,
   <<"[", "CALL", ":", "a", "(", "*", "]">>}

\* What stands between two fragments.
Between == {<<>>, <<" ">>, <<"*">>}

\* The texts with two fragments.
TwoTagTexts == {x \o m \o y : x \in Fragments, m \in Between, y \in Fragments}

\* The events under study: any text in mes alone, and every filling of the
\* four fields with the FieldTexts.
Events ==
  {EventData(t, <<>>, <<>>, <<>>) : t \in Texts \cup Fragments \cup TwoTagTexts}
    \cup {EventData(a, b, c, d) : a \in FieldTexts, b \in FieldTexts,
                                  c \in FieldTexts, d \in FieldTexts}

\* The event the host emits with `data`; `call` is what the listener made of
\* it (history).
Emitted(data) == [data |-> data, handled |-> FALSE, call |-> NoCall]

\* The MESSAGE_RECEIVED listener: it parses the text of the event and, when
\* there is a call in it, chains the call on the lane.
MessageReceived ==
  /\ ~received.handled
  /\ UNCHANGED enqueueLog
  /\ LET text == MessageText(received.data)
         call == ExtractFirstCall(text)
     IN /\ received' = [received EXCEPT !.handled = TRUE, !.call = call]
        /\ parser' = [lastIndex |-> Exec(text).to,
                      log |-> Append(parser.log, [text |-> text, call |-> call])]
        /\ IF call = NoCall
             THEN UNCHANGED <<now, registry, queue, running,
                              recentCallTimestamps, nEnq, nStarted, attemptLog,
                              recentArrivals, faulted, everDisabled, order, ret,
                              host, arg, lastResult, request, worldbook,
                              creator>>
             ELSE EngineEnqueueCall(call.skillName, call.args, call.rawArgs)

\* The host emits one event, whatever it is, to a fresh engine.
ParseInit ==
  /\ Fresh
  /\ host = HealthyHost
  /\ received \in {Emitted(d) : d \in Events}
  /\ arg = NoConfig

ParseNext ==
  \/ MessageReceived
  \/ \E name \in Registrable, enabled \in BOOLEAN : Register(name, enabled)
  \/ \E i \in 1..Len(queue) : Start(i)
  \/ \E r \in running : NoticeDelivered(r)
  \/ \E r \in running : HandlerReturn(r)
  \/ \E r \in running : HandlerThrow(r)
  \/ \E r \in running : ResultDelivered(r)
  \/ \E r \in running : GenerateReturned(r)
  \/ \E r \in running : FailureDelivered(r)
  \/ \E r \in running : Settle(r)

ParseSpec == ParseInit /\ [][ParseNext]_vars

\* ------------------------------------------------ one message after another
\* The host hands at most MaxParsed messages to the listener.
MaxParsed == 3

\* The messages: whole tags and near misses, alone or after another
\* character (so that the tag does not start the text), and a text with no
\* tag.
ReparseTexts ==
  Fragments \cup {<<"*">> \o f : f \in Fragments} \cup {<<"*", " ">>}

\* The host emits the next MESSAGE_RECEIVED event, the listener being done
\* with the one before.
NextMessage(t) ==
  /\ received.handled
  /\ Len(parser.log) < MaxParsed
  /\ received' = Emitted(EventData(t, <<>>, <<>>, <<>>))
  /\ UNCHANGED <<now, registry, queue, running, recentCallTimestamps, nEnq,
                 nStarted, attemptLog, recentArrivals, faulted, everDisabled,
                 order, ret, host, arg, lastResult, request, worldbook, parser, creator, enqueueLog>>

ReparseInit ==
  /\ Fresh
  /\ host = HealthyHost
  /\ received \in {Emitted(EventData(t, <<>>, <<>>, <<>>)) : t \in ReparseTexts}
  /\ arg = NoConfig

\* No skill is registered: the lane gives every call the not-found notice.
ReparseNext ==
  \/ MessageReceived
  \/ \E t \in ReparseTexts : NextMessage(t)
  \/ \E i \in 1..Len(queue) : Start(i)
  \/ \E r \in running : NoticeDelivered(r)
  \/ \E r \in running : Settle(r)

ReparseSpec == ReparseInit /\ [][ReparseNext]_vars

\* ------------------------------------------------- one argument text
\* The longest argument text made of any pieces, in pieces.
MaxArgPieces == 3
\* The largest number of key=value chunks in an argument text.
MaxChunks == 2

\* What the argument texts under study are made of.
ArgPieces ==
  {"{", "}", "[", "]", "\"", "'", ":", ",", "=", " ", "a", "1", "0", "-", ".",
   "true", "null", "TRUE", "*"}

\* Every argument text of at most MaxArgPieces pieces.
AnyArgTexts == UNION {[1..k -> ArgPieces] : k \in 0..MaxArgPieces}

\* The characters of the strings and of the numerals that the JSON values
\* under study are made of.
StringChars == {<<>>, <<"a">>, <<"b">>, <<"a", "=", "1">>, <<" ", "a", ",">>}
NumeralChars == {<<"0">>, <<"1">>, <<"-", "1">>, <<"1", ".", "1">>, <<"1", "0">>}

\* The characters of a string of StringChars, of a number of NumeralChars.
Chars(text) == CHOOSE cs \in StringChars : Join(cs) = text
Digits(number) == CHOOSE cs \in NumeralChars : NumberOf(cs) = number

\* The JSON values under study: scalars, then arrays and objects of at most
\* two elements, which are scalars or small arrays and objects.
JsonScalars ==
  {Str(Join(cs)) : cs \in StringChars} \cup {NumberOf(cs) : cs \in NumeralChars}
    \cup {Bool(TRUE), Bool(FALSE), Null}
JsonElements ==
  JsonScalars
    \cup {Arr(<<>>), Arr(<<Str("a")>>), Obj(<<>>), Obj(<<Member("a", Num("1"))>>)}
JsonArrays == {Arr(items) : items \in UNION {[1..k -> JsonElements] : k \in 0..2}}
JsonObjects ==
  {Obj(<<>>)}
    \cup {Obj(<<Member(k, x)>>) : k \in {"a", "b"}, x \in JsonElements}
    \cup {Obj(<<Member(k[1], x), Member(k[2], y)>>) :
            k \in {<<"a", "b">>, <<"b", "a">>}, x \in JsonElements, y \in JsonElements}
JsonValues == JsonScalars \cup JsonArrays \cup JsonObjects

\* JSON.stringify(x) of a JSON value, as a text.
RECURSIVE Stringify(_)
RECURSIVE StringifyAll(_)
\* The JSON texts of the elements or members s, with commas between them.
StringifyAll(s) ==
  IF s = <<>> THEN <<>>
  ELSE (IF "key" \in DOMAIN s[1]
          THEN <<"\"">> \o Chars(s[1].key) \o <<"\"", ":">> \o Stringify(s[1].value)
          ELSE Stringify(s[1]))
       \o (IF Len(s) = 1 THEN <<>> ELSE <<",">> \o StringifyAll(Tail(s)))
Stringify(x) ==
  IF x.t = "str" THEN <<"\"">> \o Chars(x.v) \o <<"\"">>
  ELSE IF x.t = "num" THEN Digits(x)
  ELSE IF x.t = "bool" THEN <<x.v>>
  ELSE IF x.t = "null" THEN <<"null">>
  ELSE IF x.t = "array" THEN <<"[">> \o StringifyAll(x.items) \o <<"]">>
  ELSE <<"{">> \o StringifyAll(x.items) \o <<"}">>

\* The serialized JSON values.
JsonTexts == {Stringify(x) : x \in JsonValues}

\* Chunks of key=value argument texts: well-formed ones, one with a comma
\* inside quotes, ones without key or without "=", one in braces.
Chunks ==
  {<<"a", "=", "1">>,
   <<"b", "=", "\"", "a", " ", "b", "\"">>,
   <<"a", "=", "\"", "a", ",", " ", "b", "\"">>,
   <<" ", "b", " ", "=", " ", "TRUE", " ">>,
   <<"b", "=">>,
   <<"a">>,
   <<"=", "1">>,
   <<"{", "a", "=", "0", "1", "}">>}

\* The chunks of s with commas between them.
RECURSIVE JoinChunks(_)
JoinChunks(s) ==
  IF s = <<>> THEN <<>>
  ELSE IF Len(s) = 1 THEN s[1]
  ELSE s[1] \o <<",">> \o JoinChunks(Tail(s))

\* The argument texts of at most MaxChunks chunks.
ChunkTexts == {JoinChunks(s) : s \in UNION {[1..k -> Chunks] : k \in 1..MaxChunks}}

\* The argument texts under study.
ArgTexts == AnyArgTexts \cup JsonTexts \cup ChunkTexts

\* The message that calls skill a with the argument text `a`.
ArgMessage(a) == TagHead \o <<"(">> \o a \o <<")", "]">>

\* The host emits one event: a call of skill a with any of the argument
\* texts, or with none.
ArgsInit ==
  /\ Fresh
  /\ host = HealthyHost
  /\ received \in {Emitted(EventData(t, <<>>, <<>>, <<>>)) :
                    t \in {ArgMessage(a) : a \in ArgTexts} \cup {TagHead \o <<"]">>}}
  /\ arg = NoConfig

ArgsNext == MessageReceived

ArgsSpec == ArgsInit /\ [][ArgsNext]_vars

\* --------------------------------------------- what the handler returns
\* The values a handler returns in the runs under study.
Results ==
  {Str(""), Str(" "), Str("ok"), Str("{}"), Absent, Null, Num("0"), Bool(FALSE),
   Arr(<<>>), Arr(<<Str("x"), Num("1"), Absent>>),
   Obj(<<>>), Obj(<<Member("ok", Bool(TRUE)), Member("skip", Absent)>>),
   Circular, Instance}

PayloadNext ==
  \/ \E name \in Registrable, enabled \in BOOLEAN : Register(name, enabled)
  \/ \E name \in SkillNames : HostEnqueue(name)
  \/ \E i \in 1..Len(queue) : Start(i)
  \/ \E r \in running : NoticeDelivered(r)
  \/ \E r \in running, result \in Results : HandlerReturnValue(r, result)
  \/ \E r \in running : HandlerThrow(r)
  \/ \E r \in running : ResultDelivered(r)
  \/ \E r \in running : GenerateReturned(r)
  \/ \E r \in running : FailureDelivered(r)
  \/ \E r \in running : Settle(r)

PayloadSpec == Init /\ [][PayloadNext]_vars

\* ------------------------------------------- a skill without an action
\* register({name, description, enabled}): the config has no action.
NoActionConfig(name, enabled) ==
  Config("object", Str(name), Str("d"), Absent, Bool(enabled))

RegisterNoAction(name, enabled) == RegisterCfg(NoActionConfig(name, enabled))

\* What the action normalizeConfig supplies resolves to.
DefaultResult ==
  Obj(<<Member("ok", Bool(FALSE)),
        Member("error", Str("No action() provided for this skill."))>>)

\* The supplied action rejects instead.
DefaultActionThrows(r) == r.action = DefaultAction /\ HandlerThrow(r)

\* The supplied action is called: async () => ({ok: false, error}), its
\* promise is fulfilled with that object.
DefaultActionReturns(r) ==
  r.action = DefaultAction /\ HandlerReturnValue(r, DefaultResult)

\* An action given to register returns or throws.
GivenActionReturns(r, result) ==
  r.action # DefaultAction /\ HandlerReturnValue(r, result)

GivenActionThrows(r) == r.action # DefaultAction /\ HandlerThrow(r)

NoActionNext ==
  \/ \E name \in Registrable, enabled \in BOOLEAN : Register(name, enabled)
  \/ \E name \in Registrable, enabled \in BOOLEAN : RegisterNoAction(name, enabled)
  \/ \E name \in SkillNames : HostEnqueue(name)
  \/ \E i \in 1..Len(queue) : Start(i)
  \/ \E r \in running : NoticeDelivered(r)
  \/ \E r \in running : DefaultActionReturns(r)
  \/ \E r \in running, result \in Results : GivenActionReturns(r, result)
  \/ \E r \in running : GivenActionThrows(r)
  \/ \E r \in running : ResultDelivered(r)
  \/ \E r \in running : GenerateReturned(r)
  \/ \E r \in running : FailureDelivered(r)
  \/ \E r \in running : Settle(r)

NoActionSpec == Init /\ [][NoActionNext]_vars

\* ------------------------------------------------- the creator panel
\* The longest list of skills that is imported.
MaxImport == 2

\* A skill as the form, an import or the store gives it: of its fields, the
\* name and the enabled flag.
Skill(name, enabled) == [name |-> name, enabled |-> enabled]

\* creatorStore.sanitizeSkill(maybe): the name trimmed, enabled true unless
\* a boolean says otherwise.
SanitizeSkill(maybe) ==
  [name |-> Trim(SafeString(maybe.name, "")),
   enabled |-> IF maybe.enabled.t = "bool" THEN maybe.enabled.v = "true" ELSE TRUE]

\* A stored skill as the value that is handed back to the store.
Stored(s) == Skill(Str(s.name), Bool(s.enabled))

\* all.findIndex((x) => x.name === name), counted from 1; 0 for -1.
FindIndex(all, name) ==
  IF \E i \in 1..Len(all) : all[i].name = name
    THEN Least({i \in 1..Len(all) : all[i].name = name})
    ELSE 0

\* creatorStore.upsert(skill) on the stored list `all`: what is stored after
\* it.  A blank name is refused; else the first entry of that name is
\* replaced, or the skill is pushed.
Upsert(all, skill) ==
  LET next == SanitizeSkill(skill)
      idx == FindIndex(all, next.name)
  IN IF next.name = "" THEN all
     ELSE IF idx > 0 THEN [all EXCEPT ![idx] = next]
     ELSE Append(all, next)

\* What upsert returns: r.ok.
UpsertOk(skill) == SanitizeSkill(skill).name # ""

\* creatorStore.remove(name) on the stored list `all`.
StoreRemove(all, name) ==
  IF Trim(name) = "" THEN all
  ELSE SelectSeq(all, LAMBDA x : x.name # Trim(name))

\* creatorStore.replaceAll(skills), skills being an array.
ReplaceAll(skills) ==
  SelectSeq([i \in 1..Len(skills) |-> SanitizeSkill(skills[i])],
            LAMBDA x : x.name # "")

\* The names of the list, blank ones left out.
Names(all) == {all[i].name : i \in 1..Len(all)} \ {""}

\* The registry as a value: the Map's entries and their iteration order.
Skills(map, ord) == [skills |-> map, order |-> ord]

\* registry.remove(name) on the registry reg.
Removed(reg, name) ==
  IF name \in DOMAIN reg.skills
    THEN Skills(MapDelete(reg.skills, name), OrderDelete(reg.order, name))
    ELSE reg

\* registry.remove for every name of the set.
RECURSIVE RemovedAll(_, _)
RemovedAll(reg, names) ==
  IF names = {} THEN reg
  ELSE LET n == CHOOSE x \in names : TRUE
       IN RemovedAll(Removed(reg, n), names \ {n})

\* The config registerAll hands to registry.register for a stored skill;
\* buildAction(s) is the action.
CreatorConfig(s) ==
  Config("object", Str(s.name), Str("d"), Fn("creator"), Bool(s.enabled))

\* The loop of registerAll over the stored list: registry.register for every
\* skill with a name.
RECURSIVE RegisterEach(_, _)
RegisterEach(all, reg) ==
  IF all = <<>> THEN reg
  ELSE LET s == Head(all)
           n == NormalizeConfig(CreatorConfig(s), now)
       IN IF s.name = "" THEN RegisterEach(Tail(all), reg)
          ELSE RegisterEach(Tail(all),
                 Skills(MapSet(reg.skills, n.name, n), OrderSet(reg.order, n.name)))

\* creatorSkillRuntime.registerAll() with the stored list `all`, the names
\* it registered last time and the registry reg: the registry after it.  The
\* names it registered last time that are stored no more are removed, then
\* the stored skills are registered.
RegisterAll(all, registeredNames, reg) ==
  RegisterEach(all, RemovedAll(reg, registeredNames \ Names(all)))

\* A handler of the panel ends: the creator state is c and the registry reg.
Panel(c, reg) ==
  /\ creator' = c
  /\ registry' = reg.skills
  /\ order' = reg.order
  /\ everDisabled' =
       (\/ everDisabled
        \/ \E n \in DOMAIN registry : n \notin DOMAIN reg.skills
        \/ \E n \in DOMAIN reg.skills : ~reg.skills[n].enabled)
  /\ UNCHANGED <<now, queue, running, recentCallTimestamps, nEnq, nStarted,
                 attemptLog, recentArrivals, faulted, ret, host, received, arg,
                 lastResult, request, worldbook, parser, enqueueLog>>

\* The registry now.
Registry == Skills(registry, order)

\* The button that enables or disables the i-th skill of the list:
\* upsert({...s, enabled: !s.enabled}), registerAll().
Toggle(i) ==
  /\ i \in 1..Len(creator.store)
  /\ LET s == creator.store[i]
         all == Upsert(creator.store, Stored([s EXCEPT !.enabled = ~s.enabled]))
     IN Panel([creator EXCEPT !.store = all, !.registeredNames = Names(all)],
              RegisterAll(all, creator.registeredNames, Registry))

\* The button that deletes the i-th skill of the list, confirmed:
\* creatorStore.remove(s.name), registry.remove(s.name).
Delete(i) ==
  /\ i \in 1..Len(creator.store)
  /\ LET s == creator.store[i]
     IN Panel([creator EXCEPT !.store = StoreRemove(creator.store, s.name)],
              Removed(Registry, s.name))

\* The button that loads the i-th skill of the list into the form: onEdit(s).
OnEdit(i) ==
  /\ i \in 1..Len(creator.store)
  /\ creator.editingName # creator.store[i].name
  /\ Panel([creator EXCEPT !.editingName = creator.store[i].name], Registry)

\* The button that clears the form.
ResetForm ==
  /\ creator.editingName # ""
  /\ Panel([creator EXCEPT !.editingName = ""], Registry)

\* The save button with `name` in the name field.  A skill that was being
\* edited under another name is removed from the store and the registry;
\* then upsert, and when it refuses (blank name) the handler returns; else
\* registerAll() and the form edits the saved name.
Save(name, enabled) ==
  LET next == Skill(Str(Trim(name)), Bool(enabled))
      renamed == creator.editingName # "" /\ creator.editingName # Trim(name)
      kept == IF renamed THEN StoreRemove(creator.store, creator.editingName)
              ELSE creator.store
      reg == IF renamed THEN Removed(Registry, creator.editingName) ELSE Registry
      all == Upsert(kept, next)
  IN IF ~UpsertOk(next)
       THEN /\ renamed   \* else nothing happens
            /\ Panel([creator EXCEPT !.store = kept], reg)
       ELSE Panel([store |-> all, registeredNames |-> Names(all),
                   editingName |-> Trim(name)],
                  RegisterAll(all, creator.registeredNames, reg))

\* The import button with the JSON text of the array `skills` in the box:
\* replaceAll(parsed), registerAll().
Import(skills) ==
  LET all == ReplaceAll(skills)
  IN Panel([creator EXCEPT !.store = all, !.registeredNames = Names(all)],
           RegisterAll(all, creator.registeredNames, Registry))

\* The names typed in the name field, and given in imports.
CreatorNames == {"a", "b", "  "}

\* The skills an imported array holds.
ImportSkills == {Skill(Str(n), Bool(e)) : n \in CreatorNames, e \in BOOLEAN}

\* The arrays that are imported.
RECURSIVE ListsUpTo(_)
ListsUpTo(n) ==
  IF n = 0 THEN {<<>>}
  ELSE ListsUpTo(n - 1)
         \cup {Append(l, s) : l \in {x \in ListsUpTo(n - 1) : Len(x) = n - 1},
                               s \in ImportSkills}

\* The creator works in the panel while a script of the page registers and
\* registers again a skill of its own.
CreatorNext ==
  \/ \E i \in 1..Len(creator.store) : Toggle(i)
  \/ \E i \in 1..Len(creator.store) : Delete(i)
  \/ \E i \in 1..Len(creator.store) : OnEdit(i)
  \/ ResetForm
  \/ \E name \in CreatorNames, enabled \in BOOLEAN : Save(name, enabled)
  \/ \E skills \in ListsUpTo(MaxImport) : Import(skills)
  \/ \E name \in Registrable, enabled \in BOOLEAN : Register(name, enabled)

CreatorSpec == Init /\ [][CreatorNext]_vars

\* ------------------------------------------------- reading an invocation
\* The invocation was refused by the breaker: it got the breaker notice.
Refused(r) == r.out # <<>> /\ r.out[1] = "breaker"

\* The invocation named a missing or disabled skill: it got the not-found notice.
NotFound(r) == r.out # <<>> /\ r.out[1] = "notfound"

\* The messages the invocation has handed to addSystemMessage, in order.
Messages(r) == SelectSeq(r.out, LAMBDA e : e # "generate")

\* The calls of triggerGenerate the invocation has made.
Generates(r) == SelectSeq(r.out, LAMBDA e : e = "generate")

\* Some step of runSkill for r.
RunStep(r) ==
  \/ NoticeDelivered(r)
  \/ HandlerReturn(r)
  \/ HandlerThrow(r)
  \/ ResultDelivered(r)
  \/ GenerateReturned(r)
  \/ FailureDelivered(r)
  \/ Settle(r)

\* The number of breaker checks, the k-th included, made at most WINDOW_MS
\* before the k-th.
AttemptsInWindow(k) ==
  Cardinality({j \in 1..k : attemptLog[k].t - attemptLog[j].t <= WINDOW_MS})

\* ------------------------------------------------------------------ C1
\* C1: at every moment at most one invocation of runSkill (handler body,
\* delivery and continuation call together) has started and not settled,
\* however many calls are waiting on the lane.
C1_OneInFlight == Cardinality(running) <= 1

C1_Witness ==
  \E r \in running : r.pc = "handler" /\ r.id >= 2 /\ Len(queue) >= 2

\* ------------------------------------------------------------------ C2
\* C2: invocations start in the order of the enqueues: the k-th invocation to
\* start is the k-th call enqueued, and the calls still waiting are exactly
\* the later ones, each once, so none is skipped, reordered or run twice.
C2_Fifo ==
  /\ \A r \in running : r.attempt = r.id
  /\ \A i \in 1..Len(queue) : queue[i].id = nStarted + i
  /\ nEnq = nStarted + Len(queue)

C2_Witness ==
  \E r \in running : r.id >= 3 /\ r.attempt = r.id /\ Len(queue) >= 2

\* ------------------------------------------------------------------ C3
\* C3: a handler that throws or rejects does not stop the lane: its
\* invocation goes on to deliver the failure and to settle, a call waiting
\* on the idle lane can always start, and an invocation that started after
\* the fault and whose handler returned has its result delivered and its
\* continuation triggered.
C3_FaultIsolated ==
  /\ \A r \in running :
       r.hres = "threw" =>
         /\ r.pc \in {"failure", "done"}
         /\ ENABLED (FailureDelivered(r) \/ Settle(r))
  /\ (faulted /\ running = {} /\ queue # <<>>) => ENABLED Start(1)
  /\ \A r \in running :
       (r.afterFault /\ r.hres = "returned" /\ r.pc = "done") =>
         r.out = <<"result", "generate">>

C3_Witness ==
  \E r \in running :
    r.afterFault /\ r.pc = "done" /\ r.out = <<"result", "generate">>

\* ------------------------------------------------------------------ C4
\* C4: a call that waits on the lane while an invocation is in progress (in
\* particular one enqueued after that invocation started) starts only in a
\* step after which that invocation is no longer in progress, and an
\* invocation in progress can always take its next step, whatever is
\* waiting on the lane.
C4_Reentrant ==
  /\ [][\A r \in running : \A i \in 1..Len(queue) :
          queue[i].id \in Ids(running') => r.id \notin Ids(running')]_vars
  /\ [](\A r \in running : ENABLED RunStep(r))

\* An invocation is suspended in triggerGenerate and the lane holds a call
\* that was enqueued after the invocation started.
C4_Witness ==
  \E r \in running : \E i \in 1..Len(queue) :
    r.pc = "generate" /\ queue[i].id > r.seen

\* ------------------------------------------------------------------ C5
\* C5: an attempt is refused exactly when the retained timestamps, the
\* current one included, are more than MAX_CALLS_PER_WINDOW: the first five
\* attempts pass, and the sixth made within WINDOW_MS of the first is refused.
C5_Threshold ==
  \A r \in running :
    /\ Refused(r) <=> Len(recentCallTimestamps) > MAX_CALLS_PER_WINDOW
    /\ r.attempt <= MAX_CALLS_PER_WINDOW => ~Refused(r)
    /\ ( /\ r.attempt = MAX_CALLS_PER_WINDOW + 1
         /\ attemptLog[r.attempt].t - attemptLog[1].t <= WINDOW_MS ) => Refused(r)

C5_Witness ==
  \E r \in running :
    /\ r.attempt = MAX_CALLS_PER_WINDOW + 1
    /\ Refused(r)
    /\ Len(recentCallTimestamps) = MAX_CALLS_PER_WINDOW + 1

\* ------------------------------------------------------------------ C6
\* C6: the breaker is global: an attempt is refused exactly when more than
\* MAX_CALLS_PER_WINDOW attempts, of whatever skill names, were made in the
\* window that ends with it; the verdict is a function of the attempt times.
C6_Global ==
  \A r \in running : Refused(r) <=> AttemptsInWindow(r.attempt) > MAX_CALLS_PER_WINDOW

\* A call of the unknown skill "b" is refused in a window that holds an
\* invocation of the registered skill "a" (its handler ran and threw).
C6_Witness ==
  \E r \in running :
    Refused(r) /\ r.skillName = "b" /\ r.afterFault /\ now = 0

\* ------------------------------------------------------------------ C7
\* C7, as stated: after a refused attempt, an attempt made when WINDOW_MS
\* has elapsed since that last attempt is not refused.
C7_AsStated ==
  \A k \in 2..Len(attemptLog) :
    ( /\ attemptLog[k - 1].refused
      /\ attemptLog[k].t - attemptLog[k - 1].t >= WINDOW_MS ) => ~attemptLog[k].refused

\* C7, amended: after a refused attempt, an attempt made when more than
\* WINDOW_MS has elapsed since that last attempt is not refused; no reset
\* operation is involved.
C7_SelfReset ==
  \A k \in 2..Len(attemptLog) :
    ( /\ attemptLog[k - 1].refused
      /\ attemptLog[k].t - attemptLog[k - 1].t > WINDOW_MS ) => ~attemptLog[k].refused

C7_Witness ==
  \E k \in 2..Len(attemptLog) :
    /\ attemptLog[k - 1].refused
    /\ attemptLog[k].t - attemptLog[k - 1].t > WINDOW_MS
    /\ ~attemptLog[k].refused

\* ------------------------------------------------------------------ C8
\* C8, as stated: the sixth of six calls to enabled skills that arrive within
\* BurstSpanMs is refused and its handler is not run.  (No skill has been
\* disabled: the six skills are enabled from arrival to execution.)
C8_AsStated ==
  \A r \in running :
    (r.sixth /\ ~everDisabled) => (Refused(r) /\ r.hres = "none")

\* C8, amended: the sixth of six invocations that start within BurstSpanMs is
\* refused with the breaker notice and its handler is not run, whatever the
\* skill names.
C8_Burst ==
  \A r \in running :
    ( /\ r.attempt > MAX_CALLS_PER_WINDOW
      /\ attemptLog[r.attempt].t - attemptLog[r.attempt - MAX_CALLS_PER_WINDOW].t
           <= BurstSpanMs )
      => (Refused(r) /\ r.hres = "none" /\ r.pc \in {"notice", "done"})

C8_Witness ==
  \E r \in running :
    /\ r.sixth
    /\ attemptLog[r.attempt].t - attemptLog[r.attempt - MAX_CALLS_PER_WINDOW].t
         <= BurstSpanMs
    /\ r.pc = "done"
    /\ r.out = <<"breaker">>

\* ------------------------------------------------------------------ C9
\* C9: triggerGenerate is called at most once per invocation, only after the
\* handler has returned normally, and by the end of the invocation exactly
\* when it has; a refused or not-found invocation never runs the handler.
C9_ContinuationIffSuccess ==
  \A r \in running :
    /\ Len(Generates(r)) <= 1
    /\ Len(Generates(r)) = 1 => r.hres = "returned"
    /\ r.pc = "done" => (Len(Generates(r)) = 1 <=> r.hres = "returned")
    /\ (Refused(r) \/ NotFound(r)) => (r.hres = "none" /\ r.pc \in {"notice", "done"})

C9_Witness ==
  \E r \in running :
    r.pc = "done" /\ r.hres = "threw" /\ Generates(r) = <<>> /\ r.afterFault

\* ----------------------------------------------------------------- C10
\* C10: an invocation hands at most one message to addSystemMessage, and
\* exactly one once it is past the handler: the breaker notice, the not-found
\* notice, the result or the failure; the result is handed over before
\* triggerGenerate is called.
C10_OneMessage ==
  \A r \in running :
    /\ Len(Messages(r)) <= 1
    /\ r.pc # "handler" => Len(Messages(r)) = 1
    /\ r.hres = "returned" => Messages(r) = <<"result">>
    /\ r.hres = "threw" => Messages(r) = <<"failure">>
    /\ Generates(r) # <<>> => r.out = <<"result", "generate">>

C10_Witness ==
  \E r \in running : r.pc = "done" /\ r.out = <<"notfound">> /\ r.skillName = "a"

\* ----------------------------------------------------------------- C11
\* The registry holds no skill of that name.
Missing(name) == name \notin DOMAIN registry

\* The registry holds a skill of that name with enabled = false.
Disabled(name) == name \in DOMAIN registry /\ ~registry[name].enabled

\* The invocations that start in this step.
Started == {r \in running' : r.id \notin Ids(running)}

\* C11, as stated: a call whose skill is missing or disabled when it starts
\* gets the not-found notice, its handler is not invoked and no "executing"
\* notice is shown for it.
C11_AsStated ==
  [][\A r \in Started :
       (Missing(r.skillName) \/ Disabled(r.skillName)) =>
         (r.out = <<"notfound">> /\ r.hres = "none" /\ ~r.notice)]_vars

\* C11, amended: a call that the breaker does not refuse and whose skill is
\* missing or disabled when it starts gets the not-found notice; and a call
\* whose skill is missing or disabled when it starts, refused or not, never
\* has its handler invoked nor an "executing" notice shown, up to its end.
C11_NotFound ==
  /\ [][\A r \in Started :
          (Missing(r.skillName) \/ Disabled(r.skillName)) =>
            /\ r.pc = "notice" /\ r.hres = "none" /\ ~r.notice
            /\ ~Tripped(Len(recentCallTimestamps')) => r.out = <<"notfound">>]_vars
  /\ [](\A r \in running :
          (r.pc = "notice" \/ NotFound(r)) =>
            (r.pc \in {"notice", "done"} /\ r.hres = "none" /\ ~r.notice))

\* A call of the unregistered skill "b", made while skill "a" is enabled, has
\* ended with the not-found notice alone.
C11_Witness ==
  \E r \in running :
    /\ r.skillName = "b" /\ r.pc = "done" /\ r.out = <<"notfound">>
    /\ r.hres = "none" /\ ~r.notice
    /\ Missing("b") /\ ~Missing("a") /\ ~Disabled("a")

\* ----------------------------------------------------------------- C14
\* C14: no timeout on handlers.  A step that leaves an invocation waiting for
\* its handler starts no invocation and leaves the breaker's state alone; and
\* while an invocation waits for its handler no waiting call can start and
\* the invocation itself can do nothing but receive the handler's outcome,
\* however far the clock moves.
C14_NoTimeout ==
  /\ [][(\E r \in running : r.pc = "handler" /\ r \in running') =>
          /\ nStarted' = nStarted
          /\ recentCallTimestamps' = recentCallTimestamps
          /\ attemptLog' = attemptLog]_vars
  /\ [](\A r \in running :
          r.pc = "handler" =>
            /\ \A i \in 1..Len(queue) : ~ENABLED Start(i)
            /\ ~ENABLED (NoticeDelivered(r) \/ ResultDelivered(r) \/ GenerateReturned(r)
                           \/ FailureDelivered(r) \/ Settle(r)))

\* A handler started at time 0 is still pending two windows later, with calls
\* waiting behind it and the breaker holding what it held when it started.
C14_Witness ==
  \E r \in running :
    /\ r.pc = "handler"
    /\ attemptLog[r.attempt].t = 0
    /\ now >= 2 * WINDOW_MS
    /\ Len(queue) >= 2
    /\ Len(attemptLog) = r.attempt
    /\ recentCallTimestamps[Len(recentCallTimestamps)] = 0

\* ----------------------------------------------------------------- C17
\* The config has a blank name: missing, empty or whitespace only.
BlankName(cfg) == cfg.kind = "other" \/ Trim(SafeString(cfg.name, "")) = ""

\* C17, as stated: registering a config with a blank name returns a name that
\* is not blank and that no skill already in the registry has.
C17_AsStated ==
  [][\A cfg \in RegConfigs :
       (cfg.kind # "throws" /\ BlankName(cfg) /\ RegisterCfg(cfg)) =>
         (Trim(ret') # "" /\ ret' # NullRet /\ ret' \notin DOMAIN registry)]_vars

\* ----------------------------------------------------------------- C18
\* C18: register never raises and is always callable; for an argument that
\* can be read it returns the name under which the descriptor is then stored,
\* with the placeholder for a missing description, the no-handler action for
\* a missing or non-function action, enabled = true for a missing or
\* non-boolean flag, and the given values otherwise; for one that cannot be
\* read it returns null.
C18_Defaults ==
  /\ ret # "<raised>"
  /\ ENABLED RegisterArg
  /\ (ret # NoRet /\ arg.kind = "throws") => (ret = NullRet /\ registry = <<>>)
  /\ (ret # NoRet /\ arg.kind # "throws") =>
       /\ ret \in DOMAIN registry
       /\ registry[ret].name = ret
       /\ Trim(ret) # ""
       /\ registry[ret].description =
            (IF arg.kind = "object" /\ arg.description.t = "str"
               THEN arg.description.v ELSE "(no description)")
       /\ registry[ret].action =
            (IF arg.kind = "object" /\ arg.action.t = "fn"
               THEN arg.action.v ELSE "noAction")
       /\ registry[ret].enabled =
            (IF arg.kind = "object" /\ arg.enabled.t = "bool"
               THEN arg.enabled.v = "true" ELSE TRUE)

\* register has returned a generated name under which a descriptor made of
\* defaults alone is stored.
C18_Witness ==
  /\ arg.kind = "other"
  /\ ret = "unnamed_1"
  /\ ret \in DOMAIN registry
  /\ registry[ret] = [name |-> "unnamed_1", description |-> "(no description)",
                      action |-> "noAction", enabled |-> TRUE]

\* ----------------------------------------------------------------- C19
\* C19: listEnabled returns exactly the descriptors of the registry whose
\* enabled flag is true, each once, and returns the same sequence as long as
\* the registry does not change; a removed or disabled skill is not in it.
C19_ListEnabled ==
  /\ [](LET L == ListEnabled
        IN /\ \A i \in 1..Len(L) :
                /\ L[i].enabled
                /\ L[i].name \in DOMAIN registry
                /\ registry[L[i].name] = L[i]
           /\ \A i, j \in 1..Len(L) : i # j => L[i].name # L[j].name
           /\ \A n \in DOMAIN registry :
                registry[n].enabled => \E i \in 1..Len(L) : L[i] = registry[n])
  /\ [][(registry' = registry /\ order' = order) => ListEnabled' = ListEnabled]_vars

\* Three skills are registered, the middle one disabled: the listing holds the
\* other two in the order of their registration.
C19_Witness ==
  /\ order = <<"unnamed_0", "unnamed_1", "a">>
  /\ ~registry["unnamed_1"].enabled
  /\ Len(ListEnabled) = 2
  /\ ListEnabled[1].name = "unnamed_0"
  /\ ListEnabled[2].name = "a"

\* ----------------------------------------------------------------- C12
\* C12: whatever the host page provides (sink functions or generate()
\* missing or throwing), no call of the adapter ends in a fault, so no fault
\* leaves runSkill; every invocation past its handler can take its next step,
\* and a call waiting on the idle lane can start.
C12_HostFaults ==
  /\ \A r \in running :
       /\ r.pc # "rejected"
       /\ r.pc # "handler" => ENABLED RunStep(r)
       /\ (r.hres = "returned" /\ r.pc = "done") => r.out = <<"result", "generate">>
  /\ (running = {} /\ queue # <<>>) => ENABLED Start(1)

\* On a page whose sink functions and generate() all throw or are missing,
\* the second call has been executed to its end.
C12_Witness ==
  /\ host.helper = "throws" /\ host.addOne = "throws" /\ host.chat = "missing"
  /\ host.generate = "throws"
  /\ \E r \in running :
       r.id = 2 /\ r.pc = "done" /\ r.out = <<"result", "generate">>

\* ----------------------------------------------------------------- C13
\* The invocation of call id has reached a terminal outcome: it has handed
\* over its breaker notice, not-found notice, result or failure, and ended.
Outcome(id) ==
  \E r \in running : r.id = id /\ r.pc = "done" /\ Len(Messages(r)) = 1

\* C13: when handlers and host calls end, every call that waits on the lane
\* eventually reaches a terminal outcome.
C13_Progress ==
  \A id \in 1..(MaxHostReq + 1) :
    (\E i \in 1..Len(queue) : queue[i].id = id) ~> Outcome(id)

\* The last call that can be enqueued has reached its outcome behind a call
\* whose handler threw.
C13_Witness ==
  /\ nEnq >= 2
  /\ Outcome(nEnq)
  /\ \E r \in running : r.id = nEnq /\ r.afterFault

\* ----------------------------------------------------------------- C15
\* C15, as stated: when an invocation has ended, its "executing" notice is
\* no longer on screen.
C15_AsStated ==
  \A r \in running : r.pc \in {"done", "rejected"} => ~r.notice

\* ----------------------------------------------------------------- C16
\* C16: the registry holds one descriptor per name, under its own name, the
\* Map's keys being the names, each once; a registration replaces the
\* descriptor of its name by the new one and leaves the others alone; and an
\* invocation calls the action that the registry holds for its name when it
\* starts, and no other up to its end.
C16_LastWriteWins ==
  /\ [](/\ \A n \in DOMAIN registry : registry[n].name = n
        /\ {order[i] : i \in 1..Len(order)} = DOMAIN registry
        /\ Cardinality(DOMAIN registry) = Len(order))
  /\ [][\A n \in Registrable :
          /\ (Reregister(n) => registry'[n].action = "h2")
          /\ \A e \in BOOLEAN :
               Register(n, e) => (registry'[n].action = "h1" /\ registry'[n].enabled = e)]_vars
  /\ [][/\ \A r \in Started :
             r.pc = "handler" => r.action = registry[r.skillName].action
        /\ \A r \in running : \A q \in running' :
             q.id = r.id => q.action = r.action]_vars

\* The skill was registered and then registered again with another action:
\* an invocation has run the second action to its end.
C16_Witness ==
  /\ "a" \in DOMAIN registry
  /\ registry["a"].action = "h2"
  /\ \E r \in running :
       r.skillName = "a" /\ r.action = "h2" /\ r.pc = "done"
       /\ r.out = <<"result", "generate">>
\* ----------------------------------------------------------------- C20
\* Every piece of t from position i to position j is whitespace.
AllSpaces(t, i, j) == \A x \in i..j : IsSpace(t[x])

\* Every piece of t from position i to position j is a name character.
AllNameChars(t, i, j) == \A x \in i..j : IsNameChar(t[x])

\* The tag grammar: t holds a well-formed call tag from position o to
\* position e whose name is the pieces n to m, that is "[", CALL, ":", a name
\* of one or more name characters, then nothing or "(" anything ")", then
\* "]", with optional whitespace between these parts.
TagWithName(t, o, e, n, m) ==
  /\ t[o] = "["
  /\ t[e] = "]"
  /\ n <= m
  /\ AllNameChars(t, n, m)
  /\ \E k \in (o + 1)..(n - 1) :
       /\ t[k] = "CALL"
       /\ AllSpaces(t, o + 1, k - 1)
       /\ \E c \in (k + 1)..(n - 1) :
            /\ t[c] = ":"
            /\ AllSpaces(t, k + 1, c - 1)
            /\ AllSpaces(t, c + 1, n - 1)
  /\ \/ AllSpaces(t, m + 1, e - 1)
     \/ \E p \in (m + 1)..(e - 1) :
          /\ t[p] = "("
          /\ AllSpaces(t, m + 1, p - 1)
          /\ \E q \in (p + 1)..(e - 1) :
               /\ t[q] = ")"
               /\ AllSpaces(t, q + 1, e - 1)

\* t holds a well-formed call tag from position o to position e.
WellFormedTag(t, o, e) ==
  /\ t[o] = "["
  /\ t[e] = "]"
  /\ \E n \in (o + 1)..(e - 1) :
       /\ IsNameChar(t[n])
       /\ \E m \in n..(e - 1) : TagWithName(t, o, e, n, m)

\* The text holds a well-formed call tag somewhere.
HasTag(t) ==
  \E o \in 1..Len(t) :
    t[o] = "[" /\ \E e \in o..Len(t) : WellFormedTag(t, o, e)

\* C20: a received message whose text holds no well-formed call tag causes
\* nothing.  The listener's step for such a message leaves the lane, the
\* count of calls, the running invocations, the breaker's CircuitState and
\* everything else of the engine and the registry as they were; and as that
\* message is the only one, no call is ever enqueued, no invocation ever
\* starts (so no message reaches the transcript and no continuation is
\* triggered) and the CircuitState stays empty.
C20_NoTagNoEffect ==
  /\ [][(~received.handled /\ received'.handled
           /\ ~HasTag(MessageText(received.data)))
          => UNCHANGED <<now, registry, queue, running, recentCallTimestamps,
                         nEnq, nStarted, attemptLog, recentArrivals, faulted,
                         everDisabled, order, ret, host, arg, lastResult, request, worldbook,
                         creator, enqueueLog>>]_vars
  /\ [](~HasTag(MessageText(received.data))
          => /\ nEnq = 0
             /\ queue = <<>>
             /\ nStarted = 0
             /\ running = {}
             /\ recentCallTimestamps = <<>>
             /\ attemptLog = <<>>)

\* The listener has handled a message whose text starts a tag and opens the
\* argument text but never closes it, while skill a is registered and
\* enabled: nothing was enqueued.
C20_Witness ==
  /\ received.handled
  /\ MessageText(received.data) = TagHead \o <<"(", "*", "]">>
  /\ ~HasTag(MessageText(received.data))
  /\ Usable("a")
  /\ nEnq = 0

\* ----------------------------------------------------------------- C28
\* C28: the breaker check comes before the registry lookup.  An invocation
\* that starts when the breaker counts more than MAX_CALLS_PER_WINDOW gets
\* the breaker notice, not the not-found notice, whether its skill is
\* registered, disabled or unknown; and an invocation refused by the breaker
\* never has a handler looked up or called and never hands over anything but
\* the breaker notice.
C28_BreakerFirst ==
  /\ [][\A r \in Started :
          Len(recentCallTimestamps') > MAX_CALLS_PER_WINDOW
            => (Refused(r) /\ ~NotFound(r) /\ r.pc = "notice" /\ ~r.notice)]_vars
  /\ [](\A r \in running :
          Refused(r) => (r.hres = "none" /\ r.action = "none"
                           /\ r.out = <<"breaker">>))

\* A call of a skill that is not registered was refused by the breaker and
\* has ended with the breaker notice alone.
C28_Witness ==
  \E r \in running :
    /\ Missing(r.skillName)
    /\ r.pc = "done"
    /\ r.out = <<"breaker">>

\* ----------------------------------------------------------------- C29
\* The times of the breaker checks made so far, in order.
AttemptTimes == [k \in 1..Len(attemptLog) |-> attemptLog[k].t]

\* C29: every invocation that starts, refused or not, of a known skill or
\* not, puts one timestamp, the current time, at the end of CircuitState,
\* ahead of which only entries from the front may have gone.  Hence an
\* attempt that follows a refused one is refused too whenever more than
\* MAX_CALLS_PER_WINDOW attempts fall in the window that ends with it, and
\* no handler is called for a refused attempt.
C29_EveryAttemptCounts ==
  /\ [][\A r \in Started :
          \E k \in 0..Len(recentCallTimestamps) :
            recentCallTimestamps' =
              Append(SubSeq(recentCallTimestamps, k + 1,
                            Len(recentCallTimestamps)), now)]_vars
  /\ [](\A k \in 2..Len(attemptLog) :
          (attemptLog[k - 1].refused
             /\ AttemptsInWindow(k) > MAX_CALLS_PER_WINDOW)
            => attemptLog[k].refused)
  /\ [](\A r \in running :
          attemptLog[r.attempt].refused => (r.hres = "none" /\ r.action = "none"))

\* Seven attempts, all of skills that were never registered; the sixth was
\* refused and so was the seventh, whose invocation is under way, and all
\* seven timestamps are in CircuitState.
C29_Witness ==
  /\ registry = <<>>
  /\ Len(attemptLog) = MAX_CALLS_PER_WINDOW + 2
  /\ attemptLog[MAX_CALLS_PER_WINDOW + 1].refused
  /\ attemptLog[MAX_CALLS_PER_WINDOW + 2].refused
  /\ Len(recentCallTimestamps) = MAX_CALLS_PER_WINDOW + 2
  /\ \E r \in running : r.attempt = MAX_CALLS_PER_WINDOW + 2 /\ Refused(r)

\* ----------------------------------------------------------------- C30
\* C30: the clock of the model never goes back.  After every breaker check
\* CircuitState is the sequence of the times of the attempts made at most
\* WINDOW_MS before the last one, in the order they were made: it is in
\* non-decreasing order, the last attempt is its last element, its length is
\* the number of attempts in the window and none of its elements is more
\* than WINDOW_MS old.
C30_ExactWindow ==
  Len(attemptLog) > 0 =>
    LET last == attemptLog[Len(attemptLog)].t
    IN /\ recentCallTimestamps =
            SelectSeq(AttemptTimes, LAMBDA t : last - t <= WINDOW_MS)
       /\ recentCallTimestamps[Len(recentCallTimestamps)] = last
       /\ Len(recentCallTimestamps) = AttemptsInWindow(Len(attemptLog))
       /\ \A i \in 1..Len(recentCallTimestamps) :
            /\ last - recentCallTimestamps[i] <= WINDOW_MS
            /\ i > 1 => recentCallTimestamps[i - 1] <= recentCallTimestamps[i]

\* Three attempts, WINDOW_MS apart: after the third check the first
\* timestamp is gone and the second, exactly WINDOW_MS old, is kept.
C30_Witness ==
  /\ Len(attemptLog) = 3
  /\ AttemptTimes = <<0, WINDOW_MS, 2 * WINDOW_MS>>
  /\ recentCallTimestamps = <<WINDOW_MS, 2 * WINDOW_MS>>

\* ----------------------------------------------------------------- C25
\* The third part of the last result message: the delivered payload.
Delivered == lastResult.text[3]

TagStarts(t) ==
  {o \in 1..Len(t) : t[o] = "[" /\ \E e \in o..Len(t) : WellFormedTag(t, o, e)}

\* The names of the well-formed call tags of t that start at position o.
NamesAt(t, o) ==
  UNION { {Join(SubSeq(t, n, m)) :
             m \in {x \in n..Len(t) :
                      \E e \in (x + 1)..Len(t) : TagWithName(t, o, e, n, x)}} :
          n \in {x \in (o + 1)..Len(t) : IsNameChar(t[x])} }

\* C21: from a received message whose text holds one or more well-formed
\* call tags, nothing is enqueued before the listener runs and exactly one
\* call once it has run; the call bears the name of the tag that starts
\* leftmost and its tag text starts there; and every link of the lane and
\* every invocation there ever is is that call, so no tag further right is
\* executed.
C21_LeftmostOnly ==
  LET t == MessageText(received.data)
      call == received.call
      first == Least(TagStarts(t))
  IN HasTag(t) =>
       IF ~received.handled
         THEN nEnq = 0 /\ queue = <<>> /\ running = {} /\ call = NoCall
         ELSE /\ nEnq = 1
              /\ nStarted <= 1
              /\ NamesAt(t, first) = {call.skillName}
              /\ \E e \in first..Len(t) :
                   /\ WellFormedTag(t, first, e)
                   /\ call.rawTag = SubSeq(t, first, e)
              /\ \A i \in 1..Len(queue) :
                   queue[i].id = 1 /\ queue[i].skillName = call.skillName
              /\ \A r \in running : r.id = 1 /\ r.skillName = call.skillName

\* The message holds a tag that calls b, which is not registered, and further
\* right a tag that calls a, which is registered and enabled: the one
\* invocation there was is the call of b, which ended with the not-found
\* notice.
C21_Witness ==
  /\ MessageText(received.data) =
       <<"[", " ", "CALL", ":", "b", "]", " ", "[", "CALL", ":", "a", "]">>
  /\ received.handled
  /\ Usable("a")
  /\ nEnq = 1
  /\ \E r \in running :
       r.skillName = "b" /\ r.pc = "done" /\ r.out = <<"notfound">>

\* ----------------------------------------------------------------- C22
\* The argument text of the message under study (the empty text when the tag
\* has no parentheses).
StudiedArg ==
  LET t == MessageText(received.data)
  IN IF Len(t) <= Len(TagHead) + 1 THEN <<>>
     ELSE SubSeq(t, Len(TagHead) + 2, Len(t) - 2)

\* The value is a scalar of the key=value step.
IsScalar(x) == x.t \in {"str", "num", "bool", "null"}

\* Some chunk between commas has its first "=" after at least one character
\* that is not whitespace.
HasKeyValueChunk(t) ==
  \E i \in 1..Len(t) :
    /\ t[i] = "="
    /\ LET commas == {k \in 1..(i - 1) : t[k] = ","}
           start == IF commas = {} THEN 1
                    ELSE 1 + CHOOSE k \in commas : \A l \in commas : l <= k
       IN /\ \A k \in start..(i - 1) : t[k] # "="
          /\ \E j \in start..(i - 1) : ~IsSpace(t[j])

\* C22: coercion is total.  Whatever the argument text (absent, empty,
\* malformed JSON, any characters), the listener gets a call whose args are
\* a defined value and enqueues it: the empty mapping for a blank text, the
\* parsed value when the text looks like JSON and parses, else a mapping of
\* keys to scalars when some chunk has the form key=value, else the wrapper
\* with the whole text under _raw.  Text that looks like JSON and does not
\* parse takes the third or the fourth way.
C22_Total ==
  received.handled =>
    LET call == received.call
        text == TrimText(StudiedArg)
    IN /\ nEnq = 1
       /\ call.branch \in {"empty", "json", "keyvalue", "opaque"}
       /\ call.args # Absent
       /\ call.branch = "empty" <=> text = <<>>
       /\ call.branch = "empty" => call.args = Obj(<<>>)
       /\ call.branch = "json" <=> (LooksJson(text) /\ JsonParse(text).ok)
       /\ call.branch = "json" => call.args = JsonParse(text).value
       /\ (LooksJson(text) /\ ~JsonParse(text).ok)
            => call.branch \in {"keyvalue", "opaque"}
       /\ call.branch = "keyvalue"
            => /\ HasKeyValueChunk(text)
               /\ call.args.t = "object"
               /\ call.args.items # <<>>
               /\ \A i \in 1..Len(call.args.items) :
                    IsScalar(call.args.items[i].value)
       /\ call.branch = "opaque"
            => /\ ~HasKeyValueChunk(text)
               /\ call.args = Obj(<<Member("_raw", Str(Join(text)))>>)

\* The argument text {a=01} looks like JSON and does not parse; the call was
\* enqueued with the mapping of the key "{a" to the string "01}".
C22_Witness ==
  /\ received.handled
  /\ StudiedArg = <<"{", "a", "=", "0", "1", "}">>
  /\ received.call.branch = "keyvalue"
  /\ received.call.args = Obj(<<Member("{a", Str("01}"))>>)
  /\ Len(queue) = 1
  /\ queue[1].args = received.call.args

\* ----------------------------------------------------------------- C23
\* The JSON values whose serialized text is bounded by {}, [] or a pair of
\* double quotes: the objects, the arrays and the strings.
JsonBranchValues == {x \in JsonValues : x.t \in {"object", "array", "str"}}

\* Each of them with its serialized text and the message that calls skill a
\* with that text.
SerializedCalls ==
  {[value |-> x, text |-> Stringify(x), message |-> ArgMessage(Stringify(x))] :
     x \in JsonBranchValues}

\* C23: round trip through the JSON branch.  When the argument text of the
\* message is the serialization of a JSON value that is an object, an array
\* or a string, the call the listener builds has that value as its args, got
\* by the JSON branch, and the serialization as its raw argument text.
C23_RoundTrip ==
  received.handled =>
    \A c \in SerializedCalls :
      MessageText(received.data) = c.message
        => /\ received.call.args = c.value
           /\ received.call.branch = "json"
           /\ received.call.rawArgs = c.text

\* The argument text is {"a":["a"],"b":" a,"} and the call has the object
\* with the array and the string as its args.
C23_Witness ==
  /\ received.handled
  /\ StudiedArg = <<"{", "\"", "a", "\"", ":", "[", "\"", "a", "\"", "]", ",",
                    "\"", "b", "\"", ":", "\"", " ", "a", ",", "\"", "}">>
  /\ received.call.args =
       Obj(<<Member("a", Arr(<<Str("a")>>)), Member("b", Str(" a,"))>>)
  /\ received.call.args \in JsonBranchValues

\* ----------------------------------------------------------------- C24
\* The tag has no argument text: no parentheses, or nothing but whitespace
\* between its first "(" and its last ")".
BlankArgTag(tag) ==
  \/ \A i \in 1..Len(tag) : tag[i] # "("
  \/ \E p \in 1..Len(tag) : \E q \in (p + 1)..Len(tag) :
       /\ tag[p] = "("
       /\ tag[q] = ")"
       /\ \A i \in 1..(p - 1) : tag[i] # "("
       /\ \A i \in (q + 1)..Len(tag) : tag[i] # ")"
       /\ AllSpaces(tag, p + 1, q - 1)

\* C24: when the tag of the call has no parentheses, empty parentheses or
\* whitespace only between them, the args of the call are the empty mapping,
\* not the wrapper, and its raw argument text is the empty text; the link on
\* the lane and the invocation carry the same, so that is what the handler
\* is called with.
C24_EmptyArgs ==
  (received.handled /\ received.call # NoCall /\ BlankArgTag(received.call.rawTag))
    => /\ received.call.args = Obj(<<>>)
       /\ received.call.rawArgs = <<>>
       /\ \A i \in 1..Len(queue) :
            queue[i].args = Obj(<<>>) /\ queue[i].rawArgs = <<>>
       /\ \A r \in running : r.args = Obj(<<>>) /\ r.rawArgs = <<>>

\* The message is [CALL:a(  )], skill a is registered and enabled, and its
\* handler was called with the empty mapping and the empty text and has
\* returned.
C24_Witness ==
  /\ received.handled
  /\ MessageText(received.data) = <<"[", "CALL", ":", "a", "(", " ", " ", ")", "]">>
  /\ \E r \in running :
       /\ r.hres = "returned"
       /\ r.action = "h1"
       /\ r.args = Obj(<<>>)
       /\ r.rawArgs = <<>>

\* ----------------------------------------------------------------- C26
\* The payload has a shape the listener knows: a messages array, or a string
\* under prompt, chat_completion_prompt or text.
Recognized(data) ==
  /\ data.t = "object"
  /\ \/ data.messages.t = "array"
     \/ data.prompt.t = "str"
     \/ data.chat_completion_prompt.t = "str"
     \/ data.text.t = "str"

\* The lines of the part of the payload that carries the listing: the
\* content of the system message pushed last, or the string property the
\* listener appends to.
ListingLines ==
  LET data == request.data
      result == request.result
      items == result.messages.items
  IN IF data.messages.t = "array"
       THEN (IF items # <<>> /\ items[Len(items)].t = "message"
                  /\ items[Len(items)].role = "system"
                  /\ Len(items) = Len(data.messages.items) + 1
               THEN items[Len(items)].content.lines ELSE <<>>)
     ELSE IF data.prompt.t = "str" THEN result.prompt.lines
     ELSE IF data.chat_completion_prompt.t = "str"
       THEN result.chat_completion_prompt.lines
     ELSE result.text.lines

\* Some line of the listing is the line of the skill n.
Listed(n) ==
  \E i \in 1..Len(ListingLines) :
    \E d \in {"d", DefaultDescription} :
      ListingLines[i] = "- " \o n \o ": " \o d

\* C26: the listing injected into the payload of a model request names
\* exactly the skills that are registered and enabled at that moment: a
\* disabled or removed skill is never listed, an enabled one always is.  When
\* no skill is enabled the payload is left as it was.
C26_ListingExact ==
  [][(~request.handled /\ request'.handled)
       => /\ (\A n \in SkillNames : ~Usable(n)) => request'.result = request.data
          /\ ((\E n \in SkillNames : Usable(n)) /\ Recognized(request.data))
               => /\ request'.result # request.data
                  /\ \A n \in SkillNames : Listed(n)' <=> Usable(n)]_vars

\* Skill b is registered and enabled, skill a is registered and disabled, and
\* the payload held one user message: a system message with the line of b
\* and no line of a was pushed, and the user message carries the reminder.
C26_Witness ==
  /\ request.handled
  /\ request.data = Payload4(Arr(<<Message("user", Text(<<"hi">>))>>), Absent, Absent, Absent)
  /\ order = <<"a", "b">>
  /\ ~Usable("a")
  /\ Usable("b")
  /\ Len(request.result.messages.items) = 2
  /\ request.result.messages.items[2] =
       Message("system", Text(PromptHead \o <<"- b: d">> \o PromptRules))
  /\ request.result.messages.items[1] =
       Message("user", Text(<<"hi", "", NoteHead \o "b">>))

\* ----------------------------------------------------------------- C27
\* A call of a skill of the worldbook example has just ended well.
CallEnded(op) ==
  /\ worldbook'.calls = worldbook.calls + 1
  /\ worldbook'.last.op = op
  /\ worldbook'.last.ok

\* C27: in the worldbook example, restore with a versionId (of a record the
\* entry has) sets the content of the entry to the "after" text of that
\* record, and restore without a versionId sets it to the "before" text of
\* the most recent record, so that apply_patch followed by restore() leaves
\* the entry with the content it had before the patch; every change that is
\* not a dry run, restores included, adds one version record, holding the
\* content before and after the change.
C27_AsStated ==
  [][LET call == worldbook'.last
         u == call.uid
         records == worldbook.versions[u]
     IN /\ CallEnded("restore")
             => /\ \A i \in 1..Len(records) :
                     call.args.versionId = IntValue(records[i].id)
                       => worldbook'.content[u] = records[i].after
                /\ call.args.versionId = Absent
                     => worldbook'.content[u] = records[Len(records)].before
                /\ Len(worldbook'.versions[u]) = Len(records) + 1
        /\ (CallEnded("apply_patch") /\ ~call.args.dryRun)
             => /\ Len(worldbook'.versions[u]) = Len(records) + 1
                /\ worldbook'.versions[u][Len(records) + 1].before = worldbook.content[u]
                /\ worldbook'.versions[u][Len(records) + 1].after = worldbook'.content[u]
        /\ (CallEnded("apply_patch") /\ call.args.dryRun)
             => /\ worldbook'.content = worldbook.content
                /\ worldbook'.versions = worldbook.versions]_vars

\* ----------------------------------------------------------------- C31
\* The chunk a="a, b": a quoted value with a comma inside.
QuotedComma == <<"a", "=", "\"", "a", ",", " ", "b", "\"">>

\* C31: in key=value argument text a comma inside a quoted value does not
\* split the chunk: the text a="a, b" gives the one pair a -> 'a, b', and
\* a="a, b",b="a b" gives the two pairs a -> 'a, b' and b -> 'a b'.
C31_AsStated ==
  received.handled =>
    /\ StudiedArg = QuotedComma
         => received.call.args = Obj(<<Member("a", Str("a, b"))>>)
    /\ StudiedArg = QuotedComma \o <<",", "b", "=", "\"", "a", " ", "b", "\"">>
         => received.call.args =
              Obj(<<Member("a", Str("a, b")), Member("b", Str("a b"))>>)

\* ----------------------------------------------------------------- C32
\* Some chunk between commas that is not blank has no "=" or has it first:
\* the loop passes it over.
HasSkippedChunk(t) ==
  LET parts == Split(t, ",")
  IN \E i \in 1..Len(parts) :
       /\ TrimText(parts[i]) # <<>>
       /\ IndexOf(TrimText(parts[i]), "=") <= 0

\* The structured value has the reserved _raw field.
HasRawField(args) ==
  /\ args.t = "object"
  /\ \E i \in 1..Len(args.items) : args.items[i].key = "_raw"

\* C32: coercion never drops part of the argument text silently: when some
\* chunk of the text cannot be read as key=value, the structured value keeps
\* the text under the reserved _raw field, also when other chunks are kept
\* as pairs.
C32_AsStated ==
  (received.handled /\ received.call.branch \in {"keyvalue", "opaque"}
     /\ HasSkippedChunk(TrimText(StudiedArg)))
    => HasRawField(received.call.args)

\* ----------------------------------------------------------------- C36
\* C36: extractFirstCall is stateless.  What it returns for a text depends
\* on that text only: whenever the same text has been parsed twice, whatever
\* was parsed before and between, the two results are the same request (or
\* both are none).
C36_Stateless ==
  \A i \in 1..Len(parser.log) : \A j \in 1..Len(parser.log) :
    parser.log[i].text = parser.log[j].text
      => parser.log[i].call = parser.log[j].call

\* A text with a tag after its first character was parsed, then another
\* text whose tag ends later, then the first text again: the first and the
\* third result are the same call.
C36_Witness ==
  /\ Len(parser.log) = 3
  /\ received.handled
  /\ parser.log[1].text = <<"*", "[", "CALL", ":", "a", "]">>
  /\ parser.log[2].text = <<"[", "CALL", ":", "b", "(", "*", ")", " ", "]">>
  /\ parser.log[3].text = parser.log[1].text
  /\ parser.log[2].call.skillName = "b"
  /\ parser.log[1].call.skillName = "a"
  /\ parser.log[3].call = parser.log[1].call
  /\ parser.lastIndex = 6

\* ----------------------------------------------------------------- C33
\* The breaker check made in this step, if one is made.
Checked == Len(attemptLog') > Len(attemptLog)

\* The timestamp that check puts in the breaker's window.
Stamped == recentCallTimestamps'[Len(recentCallTimestamps')]

\* C33: the breaker timestamps a request when its invocation starts in the
\* lane, not when it is enqueued.  Whenever a breaker check is made, the
\* timestamp it records is the time of that moment, it is not earlier than
\* the time the request was enqueued, and the invocation of the request
\* before has ended, at a time that is not later than the timestamp.
C33_StampedAtStart ==
  [][Checked =>
       /\ Stamped = now
       /\ attemptLog'[Len(attemptLog')].t = Stamped
       /\ \A r \in Started :
            /\ Stamped >= enqueueLog[r.id].at
            /\ r.id > 1 =>
                 /\ enqueueLog[r.id - 1].ended >= 0
                 /\ Stamped >= enqueueLog[r.id - 1].ended]_vars

\* The second request was enqueued at time 0, waited while the first
\* invocation went on until TickMs, and is stamped TickMs.
C33_Witness ==
  /\ Len(attemptLog) = 2
  /\ attemptLog[1].t = 0
  /\ attemptLog[2].t = TickMs
  /\ enqueueLog[1].ended = TickMs
  /\ recentCallTimestamps = <<0, TickMs>>
  /\ enqueueLog[2].at = 0
  /\ \E r \in running : r.id = 2 /\ r.attempt = 2 /\ r.pc = "handler"

\* ----------------------------------------------------------------- C34
\* C34: the registry is looked up when the invocation starts, not when the
\* call is enqueued.  An invocation that starts and is not refused by the
\* breaker is handled by the registry of that moment: the not-found notice
\* when the name is missing or disabled then, else the handler registered
\* then.  And an invocation whose handler has been called keeps that handler
\* and goes on to its result or failure message, whatever is registered,
\* disabled or removed meanwhile: a change of the registry changes no
\* invocation in progress.
C34_LookupAtStart ==
  /\ [][\A r \in Started :
          \/ r.out = <<"breaker">>
          \/ /\ ~Usable(r.skillName)
             /\ r.pc = "notice" /\ r.out = <<"notfound">> /\ r.action = "none"
          \/ /\ Usable(r.skillName)
             /\ r.pc = "handler" /\ r.action = registry[r.skillName].action]_vars
  /\ [][\A r \in running : \A q \in running' :
          (r.pc = "handler" /\ q.id = r.id) =>
            (q.action = r.action /\ q.pc \in {"handler", "result", "failure"})]_vars
  /\ [][registry' # registry => running' = running]_vars

\* The call was enqueued while its name had the first handler; the name was
\* registered again while the call waited, so the second handler is the one
\* called; and the name was removed while that handler runs.
C34_Witness ==
  \E r \in running :
    /\ r.pc = "handler"
    /\ enqueueLog[r.id].found.action = "h1"
    /\ r.action = "h2"
    /\ r.skillName \notin DOMAIN registry

\* ----------------------------------------------------------------- C35
\* The JSON text of the object the supplied action resolves to.
DefaultResultText ==
  "{\n  \"ok\": false,\n  \"error\": \"No action() provided for this skill.\"\n}"

\* C35: a call of a skill that was registered without an action is a
\* successful invocation.  The action that normalizeConfig supplied never
\* fails; once it has returned, the message handed to the host is the
\* 'Skill result' message with the JSON text of its {ok: false, error}
\* object, never the failure message, and when the invocation is over the
\* continuation trigger has been called after it.
C35_NoActionSucceeds ==
  \A r \in running :
    r.action = DefaultAction =>
      /\ r.hres \in {"none", "returned"}
      /\ r.pc \in {"handler", "result", "generate", "done"}
      /\ r.pc # "handler" =>
           /\ r.out[1] = "result"
           /\ lastResult.value = DefaultResult
           /\ lastResult.text =
                <<"Skill result: " \o r.skillName, "---", DefaultResultText>>
      /\ r.pc \in {"generate", "done"} => r.out = <<"result", "generate">>

\* Skill a was registered without an action and called: the invocation is
\* over, the result message was delivered and the continuation triggered.
C35_Witness ==
  /\ "a" \in DOMAIN registry
  /\ registry["a"].action = DefaultAction
  /\ \E r \in running :
       /\ r.action = DefaultAction /\ r.pc = "done"
       /\ r.out = <<"result", "generate">>
  /\ lastResult.text = <<"Skill result: a", "---", DefaultResultText>>

\* ----------------------------------------------------------------- C37
\* The step is a handler of the panel that ends with registerAll().
CallsRegisterAll ==
  \/ \E i \in 1..Len(creator.store) : Toggle(i)
  \/ \E name \in CreatorNames, enabled \in BOOLEAN :
       UpsertOk(Skill(Str(Trim(name)), Bool(enabled))) /\ Save(name, enabled)
  \/ \E skills \in ListsUpTo(MaxImport) : Import(skills)

\* Every stored skill with a name is registered with its stored flag.
StoredAreRegistered ==
  \A i \in 1..Len(creator.store) :
    LET s == creator.store[i]
    IN s.name # "" =>
         (s.name \in DOMAIN registry /\ registry[s.name].enabled = s.enabled)

\* C37, as stated: when registerAll returns, every stored creator skill with
\* a name is in the registry with its stored enabled flag, and every name the
\* previous registerAll registered that is stored no more is absent from the
\* registry.
C37_AsStated ==
  [][CallsRegisterAll =>
       /\ StoredAreRegistered'
       /\ \A n \in creator.registeredNames :
            n \notin Names(creator.store') => n \notin DOMAIN registry']_vars

\* ----------------------------------------------------------------- C38
\* C38, as stated: the creator store never holds two entries of the same
\* name, nor an entry with a blank name.
C38_AsStated ==
  \A i \in 1..Len(creator.store) :
    /\ creator.store[i].name # ""
    /\ \A j \in 1..Len(creator.store) :
         creator.store[i].name = creator.store[j].name => i = j

\* ----------------------------------------------------------------- C39
\* The skill of that name in the registry is one a script of the page
\* registered, not one of the creator's.
External(name) == name \in DOMAIN registry /\ registry[name].action = "h1"

\* C39, as stated: the sync of the creator store removes creator skills
\* only.  A skill that a script of the page registered under a name that the
\* store does not hold, before and after, and that the form is not editing,
\* is still registered when registerAll returns.
C39_AsStated ==
  [][\A name \in SkillNames :
       (/\ CallsRegisterAll
        /\ External(name)
        /\ name \notin Names(creator.store)
        /\ name \notin Names(creator.store')
        /\ name # creator.editingName)
         => External(name)']_vars

====
